---------------------------- MODULE Spec2Model ----------------------------
(***************************************************************************)
(* A model of the mini Pascal pipeline of src/interpreter.py:              *)
(* Lexer -> Parser -> SemanticAnalyzer -> Interpreter, driven by main().   *)
(*                                                                         *)
(* Source text is a sequence of one-character strings.  Python strings     *)
(* (identifier names, string constants) are sequences of characters too;   *)
(* they are joined into TLA+ strings only when they are printed.  Python   *)
(* values are tagged records [t, v]; Python's 0-based text index `pos` is  *)
(* the 1-based index pos here.                                             *)
(***************************************************************************)
EXTENDS Integers, Sequences, FiniteSets, TLC

VARIABLES
    text,            \* main: the source text read from the input file
    flags,           \* the _SHOULD_LOG_* globals set from the command line
    pc,              \* main: the stage the process is in
    exit_status,     \* the status the process ended with (None while it runs)
    raised,          \* the exception that ended the run ([exc |-> "none"] if none)
    stdout,          \* everything print() wrote, one string per call
    lexer,           \* Lexer: pos, lineno, column
    current_token,   \* Parser.current_token
    parse_kont,      \* Parser: the pending part of the recursive descent
    ret,             \* Parser: what the method that returned last has returned
    tree,            \* the AST returned by Parser.parse
    current_scope,   \* SemanticAnalyzer.current_scope (index into scopes, 0 = None)
    scopes,          \* the ScopedSymbolTable objects created so far
    symbols,         \* the ProcedureSymbol objects created so far
    proc_symbol,     \* ProcedureCall.proc_symbol of each call node (by token position)
    sem_kont,        \* SemanticAnalyzer: the pending part of the recursive visit
    call_stack,      \* Interpreter.call_stack._records
    kont             \* Interpreter: the pending part of the recursive visit

parser_vars == <<lexer, current_token, parse_kont, ret>>

vars == <<text, flags, pc, exit_status, raised, stdout, lexer, current_token, parse_kont, ret,
          tree, current_scope, scopes, symbols, proc_symbol, sem_kont, call_stack, kont>>

-----------------------------------------------------------------------------
(* Python values *)

None == [t |-> "none"]
PyInt(n) == [t |-> "int", v |-> n]
PyStr(s) == [t |-> "str", v |-> s]
\* a float, kept exactly as the fraction n/d in lowest terms with d > 0
PyReal(n, d) == [t |-> "real", v |-> <<n, d>>]

RECURSIVE Join(_)
\* ''.join(chars): the characters of a Python string as one TLA+ string
Join(s) == IF s = <<>> THEN "" ELSE Head(s) \o Join(Tail(s))

-----------------------------------------------------------------------------
(* Characters *)

Digits == <<"0", "1", "2", "3", "4", "5", "6", "7", "8", "9">>
LowerLetters == <<"a", "b", "c", "d", "e", "f", "g", "h", "i", "j", "k", "l", "m",
                  "n", "o", "p", "q", "r", "s", "t", "u", "v", "w", "x", "y", "z">>
UpperLetters == <<"A", "B", "C", "D", "E", "F", "G", "H", "I", "J", "K", "L", "M",
                  "N", "O", "P", "Q", "R", "S", "T", "U", "V", "W", "X", "Y", "Z">>

Range(s) == {s[i] : i \in DOMAIN s}
IndexOf(s, c) == CHOOSE i \in DOMAIN s : s[i] = c

isdigit(c) == c \in Range(Digits)
isalpha(c) == c \in Range(LowerLetters) \cup Range(UpperLetters)
isalnum(c) == isalpha(c) \/ isdigit(c)
isspace(c) == c \in {" ", "\n", "\t", "\r", "\f"}

\* str.upper() of one character
upper(c) == IF c \in Range(LowerLetters) THEN UpperLetters[IndexOf(LowerLetters, c)] ELSE c

RECURSIVE UpperStr(_)
UpperStr(s) == IF s = <<>> THEN <<>> ELSE <<upper(Head(s))>> \o UpperStr(Tail(s))

\* int(c) of a digit character
DigitVal(c) == IndexOf(Digits, c) - 1


-----------------------------------------------------------------------------
(* Numbers *)

Abs(n) == IF n < 0 THEN -n ELSE n

RECURSIVE Gcd(_, _)
Gcd(a, b) == IF b = 0 THEN a ELSE Gcd(b, a % b)

RECURSIVE Pow10(_)
Pow10(k) == IF k = 0 THEN 1 ELSE 10 * Pow10(k - 1)

\* the float n/d (d # 0) in lowest terms with a positive denominator
Real(n, d) ==
    LET g == Gcd(Abs(n), Abs(d))
        s == IF d < 0 THEN -1 ELSE 1
    IN PyReal((s * n) \div g, (s * d) \div g)

RECURSIVE IntOf(_)
\* int(result) of a string of digits
IntOf(s) == IF s = <<>> THEN 0 ELSE 10 * IntOf(SubSeq(s, 1, Len(s) - 1)) + DigitVal(s[Len(s)])

\* float(result) of digits '.' digits
FloatOf(ip, fp) == Real(IntOf(ip \o fp), Pow10(Len(fp)))

-----------------------------------------------------------------------------
(* LEXER *)

\* the single-character members of TokenType, by value
SingleCharTokens ==
    [c \in {"+", "-", "*", "/", "(", ")", ";", ".", ":", ",", "<", ">", "=", "[", "]", "'"} |->
        CASE c = "+" -> "PLUS"      [] c = "-" -> "MINUS"   [] c = "*" -> "MUL"
          [] c = "/" -> "FLOAT_DIV" [] c = "(" -> "LPAREN"  [] c = ")" -> "RPAREN"
          [] c = ";" -> "SEMI"      [] c = "." -> "DOT"     [] c = ":" -> "COLON"
          [] c = "," -> "COMMA"     [] c = "<" -> "LESS"    [] c = ">" -> "GREATER"
          [] c = "=" -> "EQUAL"     [] c = "[" -> "LBRACK"  [] c = "]" -> "RBRACK"
          [] c = "'" -> "QUOTE"]

\* RESERVED_KEYWORDS: the members of TokenType from PROGRAM to END, by value
RESERVED_KEYWORDS ==
    [k \in {"PROGRAM", "INTEGER", "REAL", "CHAR", "DIV", "VAR", "PROCEDURE", "BEGIN",
            "AND", "ARRAY", "MOD", "DO", "ELSE", "IF", "NOT", "OF", "OR", "ORD", "READ",
            "READLN", "THEN", "WHILE", "WRITE", "WRITELN", "END"} |->
        IF k = "DIV" THEN "INTEGER_DIV" ELSE k]

\* Token(type, value, lineno, column)
Token(type, value, lineno, column) ==
    [type |-> type, value |-> value, lineno |-> lineno, column |-> column]

\* what get_next_token hands back when it does not return a Token
\* the call returned None
NoneToken == [type |-> "<None>", value |-> None, lineno |-> None, column |-> None]
\* the call never returns
HangToken == [type |-> "<Hang>", value |-> None, lineno |-> None, column |-> None]
\* the call raised LexerError on the character c
LexerErrorAt(L, c) ==
    [type |-> "<LexerError>", value |-> PyStr(<<c>>), lineno |-> PyInt(L.lineno),
     column |-> PyInt(L.column)]

IsToken(tok) == tok.type \notin {"<None>", "<Hang>", "<LexerError>"}

\* Lexer.__init__: pos, lineno, column (current_char is text[pos])
NewLexer == [pos |-> 1, lineno |-> 1, column |-> 1]

NoChar == "<None>"
current_char(L) == IF L.pos > Len(text) THEN NoChar ELSE text[L.pos]

advance(L) ==
    LET l1 == IF current_char(L) = "\n" THEN [L EXCEPT !.lineno = @ + 1, !.column = 0] ELSE L
    IN IF l1.pos + 1 > Len(text)
       THEN [l1 EXCEPT !.pos = @ + 1]
       ELSE [l1 EXCEPT !.pos = @ + 1, !.column = @ + 1]

look_at_next_char(L) == IF L.pos + 1 > Len(text) THEN NoChar ELSE text[L.pos + 1]

RECURSIVE skip_whitespace(_)
skip_whitespace(L) ==
    IF current_char(L) # NoChar /\ isspace(current_char(L)) THEN skip_whitespace(advance(L)) ELSE L

RECURSIVE skip_comment(_)
\* the loop only ends on '}': past the end of the text it runs forever
skip_comment(L) ==
    IF current_char(L) = "}" THEN [lx |-> advance(L), hang |-> FALSE]
    ELSE IF current_char(L) = NoChar THEN [lx |-> L, hang |-> TRUE]
    ELSE skip_comment(advance(L))

RECURSIVE ScanDigits(_, _)
\* while current_char is a digit: result += current_char; advance()
ScanDigits(L, result) ==
    IF current_char(L) # NoChar /\ isdigit(current_char(L))
    THEN ScanDigits(advance(L), Append(result, current_char(L)))
    ELSE [lx |-> L, result |-> result]

number(L) ==
    LET ip == ScanDigits(L, <<>>)
    IN IF current_char(ip.lx) = "." /\ look_at_next_char(ip.lx) # "."
       THEN LET fp == ScanDigits(advance(ip.lx), <<>>)
            IN [tok |-> Token("REAL_CONST", FloatOf(ip.result, fp.result), PyInt(L.lineno), PyInt(L.column)),
                lx |-> fp.lx]
       ELSE [tok |-> Token("INTEGER_CONST", PyInt(IntOf(ip.result)), PyInt(L.lineno), PyInt(L.column)),
             lx |-> ip.lx]

RECURSIVE ScanString(_, _)
ScanString(L, result) ==
    IF current_char(L) # NoChar /\ current_char(L) # "'"
    THEN ScanString(advance(L), Append(result, current_char(L)))
    ELSE [lx |-> L, result |-> result]

\* falls off its end, returning None, when the closing quote is missing
string_builder(L) ==
    LET s == ScanString(L, <<>>)
    IN IF current_char(s.lx) = "'"
       THEN [tok |-> Token("STRING_CONST", PyStr(s.result), PyInt(L.lineno), PyInt(L.column)),
             lx |-> advance(s.lx)]
       ELSE [tok |-> NoneToken, lx |-> s.lx]

RECURSIVE ScanAlnum(_, _)
ScanAlnum(L, value) ==
    IF current_char(L) # NoChar /\ isalnum(current_char(L))
    THEN ScanAlnum(advance(L), Append(value, current_char(L)))
    ELSE [lx |-> L, result |-> value]

_id(L) ==
    LET s == ScanAlnum(L, <<>>)
        up == UpperStr(s.result)
    IN IF Join(up) \in DOMAIN RESERVED_KEYWORDS
       THEN [tok |-> Token(RESERVED_KEYWORDS[Join(up)], PyStr(up), PyInt(L.lineno), PyInt(L.column)), lx |-> s.lx]
       ELSE [tok |-> Token("ID", PyStr(s.result), PyInt(L.lineno), PyInt(L.column)), lx |-> s.lx]

RECURSIVE get_next_token(_)
get_next_token(L) ==
    LET c == current_char(L)
    IN IF c = NoChar THEN [tok |-> Token("EOF", None, None, None), lx |-> L]
       ELSE IF c = ":" /\ look_at_next_char(L) = "="
       THEN [tok |-> Token("ASSIGN", PyStr(<<":", "=">>), PyInt(L.lineno), PyInt(L.column)),
             lx |-> advance(advance(L))]
       ELSE IF isspace(c) THEN get_next_token(skip_whitespace(L))
       ELSE IF c = "'" THEN string_builder(advance(L))
       ELSE IF c = "{"
       THEN LET k == skip_comment(advance(L))
            IN IF k.hang THEN [tok |-> HangToken, lx |-> k.lx] ELSE get_next_token(k.lx)
       ELSE IF isalpha(c) THEN _id(L)
       ELSE IF isdigit(c) THEN number(L)
       ELSE IF c \in DOMAIN SingleCharTokens
       THEN [tok |-> Token(SingleCharTokens[c], PyStr(<<c>>), PyInt(L.lineno), PyInt(L.column)), lx |-> advance(L)]
       ELSE [tok |-> LexerErrorAt(L, c), lx |-> L]

-----------------------------------------------------------------------------
(* AST nodes *)

NoNode == [kind |-> "None"]          \* Python's None where a node is expected
BinOp(left, op, right) == [kind |-> "BinOp", left |-> left, op |-> op, right |-> right]
Num(token) == [kind |-> "Num", token |-> token, value |-> token.value]
\* a faulty variant of Str: a node of a class that no visitor has a method for
StrOfNoVisitor(token) == [kind |-> "String", token |-> token, value |-> token.value]
Str(token) == [kind |-> "Str", token |-> token, value |-> token.value]
Relation(left, token, right) == [kind |-> "Relation", left |-> left, token |-> token, right |-> right]
\* WRITE(op, tk): value = tk.value; READ(op, tk): value = tk
WRITE(op, tk) == [kind |-> "WRITE", value |-> tk.value, op |-> op]
READ(op, tk) == [kind |-> "READ", value |-> tk, op |-> op]
UnaryOp(op, expr) == [kind |-> "UnaryOp", op |-> op, expr |-> expr]
Array(start_len, end_len, type, members) ==
    [kind |-> "Array", start |-> start_len, end |-> end_len, value |-> type, members |-> members]
Compound(children) == [kind |-> "Compound", children |-> children]
Assign(left, op, right) == [kind |-> "Assign", left |-> left, op |-> op, right |-> right]
Var(token) == [kind |-> "Var", token |-> token, value |-> token.value]
NoOp == [kind |-> "NoOp"]
Program(name, block) == [kind |-> "Program", name |-> name, block |-> block]
Block(declarations, compound_statement) ==
    [kind |-> "Block", declarations |-> declarations, compound_statement |-> compound_statement]
VarDecl(var_node, type_node) == [kind |-> "VarDecl", var_node |-> var_node, type_node |-> type_node]
Type(token) == [kind |-> "Type", token |-> token, value |-> token.value]
Param(var_node, type_node) == [kind |-> "Param", var_node |-> var_node, type_node |-> type_node]
ProcedureDecl(proc_name, formal_params, block_node) ==
    [kind |-> "ProcedureDecl", proc_name |-> proc_name, formal_params |-> formal_params,
     block_node |-> block_node]
\* proc_symbol, the one attribute set after construction, is kept in the variable proc_symbol
ProcedureCall(proc_name, actual_params, token) ==
    [kind |-> "ProcedureCall", proc_name |-> proc_name, actual_params |-> actual_params,
     token |-> token]
IfStatement(token, expr, statement, else_statement) ==
    [kind |-> "IfStatement", name |-> token, expr |-> expr, statement |-> statement,
     elseStatement |-> else_statement]
WhileStatement(token, expr, statement) ==
    [kind |-> "WhileStatement", name |-> token, expr |-> expr, statement |-> statement]

-----------------------------------------------------------------------------
(* Python dicts: (key, value) pairs in insertion order *)

DictHas(d, k) == \E i \in DOMAIN d : d[i].k = k
DictGet(d, k) == d[CHOOSE i \in DOMAIN d : d[i].k = k].v
\* d[k] = v: a new key goes last, an old key keeps its place
DictSet(d, k, v) ==
    IF DictHas(d, k)
    THEN [i \in DOMAIN d |-> IF d[i].k = k THEN [k |-> k, v |-> v] ELSE d[i]]
    ELSE Append(d, [k |-> k, v |-> v])

-----------------------------------------------------------------------------
(* Python operators on the runtime values: int, float, str, None.           *)
(* A float is an exact fraction; float(s) of a str is modelled for strings  *)
(* of digits with at most one '.', every other string raising ValueError.   *)

Exc(name) == [t |-> "exc", v |-> name]
IsExc(x) == x.t = "exc"
IsNum(x) == x.t \in {"int", "real"}

\* numerator and denominator of a number
NumOf(x) == IF x.t = "int" THEN x.v ELSE x.v[1]
DenOf(x) == IF x.t = "int" THEN 1 ELSE x.v[2]

\* floor(n / d) for d # 0, as Python's // rounds it
FloorDiv(n, d) == IF d > 0 THEN n \div d ELSE (-n) \div (-d)

RECURSIVE Repeat(_, _)
Repeat(s, n) == IF n <= 0 THEN <<>> ELSE s \o Repeat(s, n - 1)

\* ord(c) - 31 for the printable ASCII characters (a TLA+ string cannot hold
\* the backquote, so the model's texts have none)
Ascii == <<" ", "!", "\"", "#", "$", "%", "&", "'", "(", ")", "*", "+", ",", "-", ".", "/",
           "0", "1", "2", "3", "4", "5", "6", "7", "8", "9", ":", ";", "<", "=", ">", "?",
           "@", "A", "B", "C", "D", "E", "F", "G", "H", "I", "J", "K", "L", "M", "N", "O",
           "P", "Q", "R", "S", "T", "U", "V", "W", "X", "Y", "Z", "[", "\\", "]", "^", "_",
           "<backquote>", "a", "b", "c", "d", "e", "f", "g", "h", "i", "j", "k", "l", "m", "n", "o",
           "p", "q", "r", "s", "t", "u", "v", "w", "x", "y", "z", "{", "|", "}", "~">>
Ord(c) == IF c \in Range(Ascii) THEN IndexOf(Ascii, c) ELSE 0

RECURSIVE StrLess(_, _)
\* a < b on two strs
StrLess(a, b) ==
    IF b = <<>> THEN FALSE
    ELSE IF a = <<>> THEN TRUE
    ELSE IF Head(a) = Head(b) THEN StrLess(Tail(a), Tail(b))
    ELSE Ord(Head(a)) < Ord(Head(b))

PyAdd(a, b) ==
    IF a.t = "int" /\ b.t = "int" THEN PyInt(a.v + b.v)
    ELSE IF IsNum(a) /\ IsNum(b)
    THEN Real(NumOf(a) * DenOf(b) + NumOf(b) * DenOf(a), DenOf(a) * DenOf(b))
    ELSE IF a.t = "str" /\ b.t = "str" THEN PyStr(a.v \o b.v)
    ELSE Exc("TypeError")

PySub(a, b) ==
    IF a.t = "int" /\ b.t = "int" THEN PyInt(a.v - b.v)
    ELSE IF IsNum(a) /\ IsNum(b)
    THEN Real(NumOf(a) * DenOf(b) - NumOf(b) * DenOf(a), DenOf(a) * DenOf(b))
    ELSE Exc("TypeError")

PyMul(a, b) ==
    IF a.t = "int" /\ b.t = "int" THEN PyInt(a.v * b.v)
    ELSE IF IsNum(a) /\ IsNum(b) THEN Real(NumOf(a) * NumOf(b), DenOf(a) * DenOf(b))
    ELSE IF a.t = "str" /\ b.t = "int" THEN PyStr(Repeat(a.v, b.v))
    ELSE IF a.t = "int" /\ b.t = "str" THEN PyStr(Repeat(b.v, a.v))
    ELSE Exc("TypeError")

\* a // b
PyFloorDiv(a, b) ==
    IF ~(IsNum(a) /\ IsNum(b)) THEN Exc("TypeError")
    ELSE IF NumOf(b) = 0 THEN Exc("ZeroDivisionError")
    ELSE IF a.t = "int" /\ b.t = "int" THEN PyInt(FloorDiv(a.v, b.v))
    ELSE Real(FloorDiv(NumOf(a) * DenOf(b), DenOf(a) * NumOf(b)), 1)

IsFloatLiteral(s) ==
    /\ \E i \in DOMAIN s : isdigit(s[i])
    /\ \A i \in DOMAIN s : isdigit(s[i]) \/ s[i] = "."
    /\ Cardinality({i \in DOMAIN s : s[i] = "."}) <= 1

\* float(x)
PyFloat(x) ==
    IF IsNum(x) THEN Real(NumOf(x), DenOf(x))
    ELSE IF x.t = "str"
    THEN IF IsFloatLiteral(x.v)
         THEN LET dots == {i \in DOMAIN x.v : x.v[i] = "."}
                  k == IF dots = {} THEN Len(x.v) + 1 ELSE CHOOSE i \in dots : TRUE
              IN FloatOf(SubSeq(x.v, 1, k - 1), SubSeq(x.v, k + 1, Len(x.v)))
         ELSE Exc("ValueError")
    ELSE Exc("TypeError")

\* a / b on two floats
PyTrueDiv(a, b) ==
    IF NumOf(b) = 0 THEN Exc("ZeroDivisionError")
    ELSE Real(NumOf(a) * DenOf(b), DenOf(a) * NumOf(b))

PyPos(a) == IF IsNum(a) THEN a ELSE Exc("TypeError")
PyNeg(a) ==
    IF a.t = "int" THEN PyInt(-a.v)
    ELSE IF a.t = "real" THEN Real(-NumOf(a), DenOf(a))
    ELSE Exc("TypeError")

\* a == b
PyEq(a, b) ==
    IF IsNum(a) /\ IsNum(b) THEN NumOf(a) * DenOf(b) = NumOf(b) * DenOf(a)
    ELSE IF a.t = "str" /\ b.t = "str" THEN a.v = b.v
    ELSE a.t = "none" /\ b.t = "none"

\* a < b, where it is defined
PyLess(a, b) ==
    IF IsNum(a) THEN NumOf(a) * DenOf(b) < NumOf(b) * DenOf(a) ELSE StrLess(a.v, b.v)

Comparable(a, b) == (IsNum(a) /\ IsNum(b)) \/ (a.t = "str" /\ b.t = "str")

PyBool(b) == [t |-> "bool", v |-> b]

\* a == b, a < b, a <= b, a > b or a >= b, as the relation's token selects:
\* the bool, or the exception raised
PyCompare(token, a, b) ==
    IF token = "EQUAL" THEN PyBool(PyEq(a, b))
    ELSE IF ~Comparable(a, b) THEN Exc("TypeError")
    ELSE IF token = "LESS" THEN PyBool(PyLess(a, b))
    ELSE IF token = "LESSEQUAL" THEN PyBool(~PyLess(b, a))
    ELSE IF token = "GREATER" THEN PyBool(PyLess(b, a))
    ELSE PyBool(~PyLess(a, b))

-----------------------------------------------------------------------------
(* str(), repr() and the format strings, as TLA+ strings *)

RECURSIVE Spaces(_)
Spaces(n) == IF n <= 0 THEN "" ELSE " " \o Spaces(n - 1)

\* '%-15s' % s and f'{s:<20}'
PadRight(s, n) == s \o Spaces(n - Len(s))
\* '%7s' % s
PadLeft(s, n) == Spaces(n - Len(s)) \o s

RECURSIVE FracDigits(_, _, _)
\* the decimal digits of r/d (0 <= r < d), at most k of them
FracDigits(r, d, k) ==
    IF r = 0 \/ k = 0 THEN ""
    ELSE ToString((10 * r) \div d) \o FracDigits((10 * r) % d, d, k - 1)

\* repr(x) of the float n/d, which shows at most 17 digits
FloatStr(n, d) ==
    LET a == Abs(n)
        frac == FracDigits(a % d, d, 17)
    IN (IF n < 0 THEN "-" ELSE "") \o ToString(a \div d) \o "." \o (IF frac = "" THEN "0" ELSE frac)

\* str(x) of a value
PyStrOf(x) ==
    IF x.t = "int" THEN ToString(x.v)
    ELSE IF x.t = "real" THEN FloatStr(x.v[1], x.v[2])
    ELSE IF x.t = "str" THEN Join(x.v)
    ELSE "None"

ReprChar(c) ==
    IF c = "\\" THEN "\\\\" ELSE IF c = "\n" THEN "\\n" ELSE IF c = "\t" THEN "\\t"
    ELSE IF c = "\r" THEN "\\r" ELSE c

\* repr(x) of a value (a str of the model never holds a quote)
PyRepr(x) ==
    IF x.t = "str" THEN "'" \o Join([i \in DOMAIN x.v |-> ReprChar(x.v[i])]) \o "'"
    ELSE PyStrOf(x)

\* Token.__str__
TokenStr(tok) ==
    "Token(TokenType." \o tok.type \o ", " \o PyRepr(tok.value) \o ", position="
        \o PyStrOf(tok.lineno) \o ":" \o PyStrOf(tok.column) \o ")"

-----------------------------------------------------------------------------
(* ERRORS *)

NoError == [exc |-> "none", error_code |-> "none", token |-> NoneToken]
Error(exc, error_code, token) == [exc |-> exc, error_code |-> error_code, token |-> token]

ErrorCode == [c \in {"UNEXPECTED_TOKEN", "ID_NOT_FOUND", "DUPLICATE_ID"} |->
                 CASE c = "UNEXPECTED_TOKEN" -> "Unexpected token"
                   [] c = "ID_NOT_FOUND" -> "Identifier not found"
                   [] c = "DUPLICATE_ID" -> "Duplicate id found"]

\* Error.message of a ParserError or SemanticError raised by error(error_code, token)
ErrorMessage(exc, error_code, token) ==
    exc \o ": " \o ErrorCode[error_code] \o " -> " \o TokenStr(token)

\* the message of the LexerError raised by Lexer.error
LexerErrorMessage(tok) ==
    "LexerError: Lexer error on '" \o Join(tok.value.v) \o "' line: " \o PyStrOf(tok.lineno)
        \o " column: " \o PyStrOf(tok.column)

\* main stops before the analyzer: the lines printed, the exception that ended
\* it, status 1
MainFail(out, exc, error_code, token) ==
    /\ stdout' = stdout \o out
    /\ raised' = Error(exc, error_code, token)
    /\ pc' = "exit"
    /\ exit_status' = PyInt(1)
    /\ UNCHANGED <<parser_vars, text, flags, tree, current_scope, scopes, symbols, proc_symbol,
                   sem_kont, call_stack, kont>>

-----------------------------------------------------------------------------
(* PARSER *)
(* The recursive descent is unfolded into parse_kont, a stack of frames       *)
(* [m, at, v]: the method m is to be entered (at = 0) or resumed at its point *)
(* `at` with its local variables v; a frame of m = "eat" is a pending call    *)
(* eat(v[1]).  ret holds what the method that returned last has returned.     *)

\* a pending self.visit(node) of the analyzer or the interpreter
Visit(node) == [op |-> "visit", node |-> node]
Visits(nodes) == [i \in DOMAIN nodes |-> Visit(nodes[i])]

Call(m) == [m |-> m, at |-> 0, v |-> <<>>]
At(m, at, v) == [m |-> m, at |-> at, v |-> v]
Eat(token_type) == [m |-> "eat", at |-> 0, v |-> <<token_type>>]

\* the parser is about to enter or resume the method m
ParAt(m) ==
    /\ pc = "parse"
    /\ parse_kont # <<>>
    /\ Head(parse_kont).m = m

Frame == Head(parse_kont)

\* the method goes on with the frames k in place of its own
ParGo(k, r) ==
    /\ parse_kont' = k \o Tail(parse_kont)
    /\ ret' = r
    /\ UNCHANGED <<lexer, current_token, text, flags, pc, exit_status, raised, stdout, tree,
                   current_scope, scopes, symbols, proc_symbol, sem_kont, call_stack, kont>>

\* return r
Return(r) == ParGo(<<>>, r)

\* Parser.error(ErrorCode.UNEXPECTED_TOKEN, self.current_token), caught by main
ParserError ==
    MainFail(<<ErrorMessage("ParserError", "UNEXPECTED_TOKEN", current_token)>>,
             "ParserError", "UNEXPECTED_TOKEN", current_token)

\* an exception main does not catch
ParRaise(exc) == MainFail(<<>>, exc, "none", NoneToken)

\* what Lexer.log prints when get_next_token returns tok: number() logs
\* 'Number', _id() 'ID', the other returns 'Token'; the EOF return logs nothing
LexerLog(tok) ==
    IF ~flags.lexer \/ tok.type = "EOF" THEN <<>>
    ELSE IF tok.type \in {"INTEGER_CONST", "REAL_CONST"} THEN <<"Number : " \o TokenStr(tok)>>
    ELSE IF tok.type = "ID" \/ tok.type \in Range(RESERVED_KEYWORDS)
    THEN <<"ID : " \o TokenStr(tok)>>
    ELSE <<"Token : " \o TokenStr(tok)>>

\* self.current_token = self.get_next_token(), where the call gives g, and then
\* the frames k.  A LexerError is caught by main; an unterminated comment keeps
\* the lexer in skip_comment for ever; a None handed back raises AttributeError
\* at the next read of current_token.type, which every path does next.
Fetch(g, k) ==
    IF g.tok.type = "<LexerError>"
    THEN MainFail(<<LexerErrorMessage(g.tok)>>, "LexerError", "none", g.tok)
    ELSE IF g.tok.type = "<Hang>"
    THEN /\ pc' = "hang"
         /\ UNCHANGED <<parser_vars, text, flags, exit_status, raised, stdout, tree, current_scope,
                        scopes, symbols, proc_symbol, sem_kont, call_stack, kont>>
    ELSE IF g.tok.type = "<None>"
    THEN ParRaise("AttributeError")
    ELSE /\ lexer' = g.lx
         /\ current_token' = g.tok
         /\ stdout' = stdout \o LexerLog(g.tok)
         /\ parse_kont' = k
         /\ pc' = "parse"
         /\ UNCHANGED <<ret, text, flags, exit_status, raised, tree, current_scope, scopes,
                        symbols, proc_symbol, sem_kont, call_stack, kont>>

Parser_eat ==
    /\ ParAt("eat")
    /\ IF current_token.type = Frame.v[1]
       THEN Fetch(get_next_token(lexer), Tail(parse_kont))
       ELSE ParserError

Parser_program ==
    /\ ParAt("program")
    /\ IF Frame.at = 0
       THEN ParGo(<<Eat("PROGRAM"), Call("variable"), At("program", 1, <<>>)>>, ret)
       ELSE IF Frame.at = 1
       THEN \* prog_name = var_node.value
            ParGo(<<Eat("SEMI"), Call("block"), At("program", 2, <<ret.value>>)>>, ret)
       ELSE ParGo(<<Eat("DOT")>>, Program(Frame.v[1], ret))

Parser_block ==
    /\ ParAt("block")
    /\ IF Frame.at = 0
       THEN ParGo(<<Call("declarations"), At("block", 1, <<>>)>>, ret)
       ELSE IF Frame.at = 1
       THEN ParGo(<<Call("compound_statement"), At("block", 2, <<ret>>)>>, ret)
       ELSE Return(Block(Frame.v[1], ret))

\* v = <<declarations>>; 1 and 3 are the tests of the two while loops
Parser_declarations ==
    /\ ParAt("declarations")
    /\ IF Frame.at = 0
       THEN IF current_token.type = "VAR"
            THEN ParGo(<<Eat("VAR"), At("declarations", 1, <<<<>>>>)>>, ret)
            ELSE ParGo(<<At("declarations", 3, <<<<>>>>)>>, ret)
       ELSE IF Frame.at = 1
       THEN IF current_token.type = "ID"
            THEN ParGo(<<Call("variable_declaration"), At("declarations", 2, Frame.v)>>, ret)
            ELSE ParGo(<<At("declarations", 3, Frame.v)>>, ret)
       ELSE IF Frame.at = 2
       THEN ParGo(<<Eat("SEMI"), At("declarations", 1, <<Frame.v[1] \o ret>>)>>, ret)
       ELSE IF Frame.at = 3
       THEN IF current_token.type = "PROCEDURE"
            THEN ParGo(<<Call("procedure_declaration"), At("declarations", 4, Frame.v)>>, ret)
            ELSE Return(Frame.v[1])
       ELSE ParGo(<<At("declarations", 3, <<Append(Frame.v[1], ret)>>)>>, ret)

\* v = <<param_tokens>>; 1 is the test of the while loop
Parser_formal_parameters ==
    /\ ParAt("formal_parameters")
    /\ IF Frame.at = 0
       THEN ParGo(<<Eat("ID"), At("formal_parameters", 1, <<<<current_token>>>>)>>, ret)
       ELSE IF Frame.at = 1
       THEN IF current_token.type = "COMMA"
            THEN ParGo(<<Eat("COMMA"), At("formal_parameters", 2, Frame.v)>>, ret)
            ELSE ParGo(<<Eat("COLON"), Call("type_spec"), At("formal_parameters", 3, Frame.v)>>,
                       ret)
       ELSE IF Frame.at = 2
       THEN ParGo(<<Eat("ID"),
                    At("formal_parameters", 1, <<Append(Frame.v[1], current_token)>>)>>, ret)
       ELSE Return([i \in DOMAIN Frame.v[1] |-> Param(Var(Frame.v[1][i]), ret)])

\* v = <<param_nodes>>; 2 is the test of the while loop
Parser_formal_parameter_list ==
    /\ ParAt("formal_parameter_list")
    /\ IF Frame.at = 0
       THEN IF current_token.type # "ID"
            THEN Return(<<>>)
            ELSE ParGo(<<Call("formal_parameters"), At("formal_parameter_list", 1, <<>>)>>, ret)
       ELSE IF Frame.at = 1
       THEN ParGo(<<At("formal_parameter_list", 2, <<ret>>)>>, ret)
       ELSE IF Frame.at = 2
       THEN IF current_token.type = "SEMI"
            THEN ParGo(<<Eat("SEMI"), Call("formal_parameters"),
                         At("formal_parameter_list", 3, Frame.v)>>, ret)
            ELSE Return(Frame.v[1])
       ELSE ParGo(<<At("formal_parameter_list", 2, <<Frame.v[1] \o ret>>)>>, ret)

\* v = <<var_nodes>>; 1 is the test of the while loop
Parser_variable_declaration ==
    /\ ParAt("variable_declaration")
    /\ IF Frame.at = 0
       THEN ParGo(<<Eat("ID"), At("variable_declaration", 1, <<<<Var(current_token)>>>>)>>, ret)
       ELSE IF Frame.at = 1
       THEN IF current_token.type = "COMMA"
            THEN ParGo(<<Eat("COMMA"), At("variable_declaration", 2, Frame.v)>>, ret)
            ELSE ParGo(<<Eat("COLON"), Call("type_spec"),
                         At("variable_declaration", 3, Frame.v)>>, ret)
       ELSE IF Frame.at = 2
       THEN ParGo(<<Eat("ID"),
                    At("variable_declaration", 1, <<Append(Frame.v[1], Var(current_token))>>)>>,
                  ret)
       ELSE Return([i \in DOMAIN Frame.v[1] |-> VarDecl(Frame.v[1][i], ret)])

\* v = <<proc_name, formal_params>>
Parser_procedure_declaration ==
    /\ ParAt("procedure_declaration")
    /\ IF Frame.at = 0
       THEN ParGo(<<Eat("PROCEDURE"), At("procedure_declaration", 1, <<>>)>>, ret)
       ELSE IF Frame.at = 1
       THEN ParGo(<<Eat("ID"), At("procedure_declaration", 2, <<current_token.value, <<>>>>)>>,
                  ret)
       ELSE IF Frame.at = 2
       THEN IF current_token.type = "LPAREN"
            THEN ParGo(<<Eat("LPAREN"), Call("formal_parameter_list"),
                         At("procedure_declaration", 3, Frame.v)>>, ret)
            ELSE ParGo(<<At("procedure_declaration", 4, Frame.v)>>, ret)
       ELSE IF Frame.at = 3
       THEN ParGo(<<Eat("RPAREN"), At("procedure_declaration", 4, <<Frame.v[1], ret>>)>>, ret)
       ELSE IF Frame.at = 4
       THEN ParGo(<<Eat("SEMI"), Call("block"), At("procedure_declaration", 5, Frame.v)>>, ret)
       ELSE ParGo(<<Eat("SEMI")>>, ProcedureDecl(Frame.v[1], Frame.v[2], ret))

\* v = <<Start_len, End_len>>.  With no INTEGER after OF the local `type` is
\* read unassigned: UnboundLocalError.
Parser_type_spec ==
    /\ ParAt("type_spec")
    /\ IF Frame.at = 0
       THEN IF current_token.type \in {"INTEGER", "REAL", "STRING_CONST", "CHAR"}
            THEN ParGo(<<Eat(current_token.type)>>, Type(current_token))
            ELSE IF current_token.type = "ARRAY"
            THEN ParGo(<<Eat("ARRAY"), Eat("LBRACK"), At("type_spec", 1, <<>>)>>, ret)
            ELSE Return(Type(current_token))
       ELSE IF Frame.at = 1
       THEN ParGo(<<Eat("INTEGER_CONST"), Eat("DOT"), Eat("DOT"),
                    At("type_spec", 2, <<current_token.value>>)>>, ret)
       ELSE IF Frame.at = 2
       THEN ParGo(<<Eat("INTEGER_CONST"), Eat("RBRACK"), Eat("OF"),
                    At("type_spec", 3, <<Frame.v[1], current_token.value>>)>>, ret)
       ELSE IF current_token.type = "INTEGER"
       THEN ParGo(<<Eat("INTEGER")>>,
                  Array(Frame.v[1], Frame.v[2], PyStr(<<"I", "N", "T", "E", "G", "E", "R">>), <<>>))
       ELSE ParRaise("UnboundLocalError")

Parser_compound_statement ==
    /\ ParAt("compound_statement")
    /\ IF Frame.at = 0
       THEN ParGo(<<Eat("BEGIN"), Call("statement_list"), At("compound_statement", 1, <<>>)>>,
                  ret)
       ELSE ParGo(<<Eat("END")>>, Compound(ret))

\* v = <<results>>; 2 is the test of the while loop
Parser_statement_list ==
    /\ ParAt("statement_list")
    /\ IF Frame.at = 0
       THEN ParGo(<<Call("statement"), At("statement_list", 1, <<>>)>>, ret)
       ELSE IF Frame.at = 1
       THEN ParGo(<<At("statement_list", 2, <<<<ret>>>>)>>, ret)
       ELSE IF Frame.at = 2
       THEN IF current_token.type = "SEMI"
            THEN ParGo(<<Eat("SEMI"), Call("statement"), At("statement_list", 3, Frame.v)>>, ret)
            ELSE Return(Frame.v[1])
       ELSE ParGo(<<At("statement_list", 2, <<Append(Frame.v[1], ret)>>)>>, ret)

\* the [] get_write_parameter returns when no string follows
EmptyList == [kind |-> "list"]

\* v = <<node>>.  A ';' after the string reaches param_nodes.extend with
\* param_nodes never assigned: NameError.
Parser_get_write_parameter ==
    /\ ParAt("get_write_parameter")
    /\ IF Frame.at = 0
       THEN IF current_token.type # "STRING_CONST"
            THEN Return(EmptyList)
            ELSE ParGo(<<Eat("STRING_CONST"), At("get_write_parameter", 1, <<Str(current_token)>>)>>,
                       ret)
       ELSE IF Frame.at = 1
       THEN IF current_token.type = "SEMI"
            THEN ParGo(<<Eat("SEMI"), At("get_write_parameter", 2, Frame.v)>>, ret)
            ELSE Return(Frame.v[1])
       ELSE ParRaise("NameError")

\* v = <<param_tokens>>; 1 is the test of the while loop
Parser_read_parameters ==
    /\ ParAt("read_parameters")
    /\ IF Frame.at = 0
       THEN ParGo(<<Eat("ID"), At("read_parameters", 1, <<<<current_token>>>>)>>, ret)
       ELSE IF Frame.at = 1
       THEN IF current_token.type = "COMMA"
            THEN ParGo(<<Eat("COMMA"), At("read_parameters", 2, Frame.v)>>, ret)
            ELSE Return(Frame.v[1])
       ELSE ParGo(<<Eat("ID"), At("read_parameters", 1, <<Append(Frame.v[1], current_token)>>)>>,
                  ret)

\* v = <<param_nodes>>; 2 is the test of the while loop
Parser_get_read_parameter ==
    /\ ParAt("get_read_parameter")
    /\ IF Frame.at = 0
       THEN IF current_token.type # "ID"
            THEN Return(<<>>)
            ELSE ParGo(<<Call("read_parameters"), At("get_read_parameter", 1, <<>>)>>, ret)
       ELSE IF Frame.at = 1
       THEN ParGo(<<At("get_read_parameter", 2, <<ret>>)>>, ret)
       ELSE IF Frame.at = 2
       THEN IF current_token.type = "SEMI"
            THEN ParGo(<<Eat("SEMI"), Call("formal_parameters"),
                         At("get_read_parameter", 3, Frame.v)>>, ret)
            ELSE Return(Frame.v[1])
       ELSE ParGo(<<At("get_read_parameter", 2, <<Frame.v[1] \o ret>>)>>, ret)

\* v = <<read_tk>> or <<write_tk>>.  WRITE(op, []) reads the .value of a
\* list: AttributeError.
Parser_io_statement ==
    /\ ParAt("io_statement")
    /\ IF Frame.at = 0
       THEN IF current_token.type \in {"READ", "READLN"}
            THEN ParGo(<<Eat(current_token.type), Eat("LPAREN"), Call("get_read_parameter"),
                         At("io_statement", 1, <<current_token.type>>)>>, ret)
            ELSE IF current_token.type \in {"WRITE", "WRITELN"}
            THEN ParGo(<<Eat(current_token.type), Eat("LPAREN"), Call("get_write_parameter"),
                         At("io_statement", 2, <<current_token.type>>)>>, ret)
            ELSE ParRaise("Exception")
       ELSE IF Frame.at = 1
       THEN ParGo(<<Eat("RPAREN")>>, READ(Frame.v[1], ret))
       ELSE IF ret = EmptyList
       THEN ParRaise("AttributeError")
       ELSE ParGo(<<Eat("RPAREN")>>, WRITE(Frame.v[1], ret))

\* the call decides between a procedure call and an assignment by the raw
\* character the lexer stands on, self.lexer.current_char
Parser_statement ==
    /\ ParAt("statement")
    /\ IF current_token.type = "BEGIN" THEN ParGo(<<Call("compound_statement")>>, ret)
       ELSE IF current_token.type = "ID" /\ current_char(lexer) = "("
       THEN ParGo(<<Call("proccall_statement")>>, ret)
       ELSE IF current_token.type = "ID" THEN ParGo(<<Call("assignment_statement")>>, ret)
       ELSE IF current_token.type \in {"WRITELN", "WRITE", "READ", "READLN"}
       THEN ParGo(<<Call("io_statement")>>, ret)
       ELSE IF current_token.type = "IF" THEN ParGo(<<Call("if_statement")>>, ret)
       ELSE IF current_token.type = "WHILE" THEN ParGo(<<Call("while_statement")>>, ret)
       ELSE ParGo(<<Call("empty")>>, ret)

\* v = <<token, expr>>
Parser_while_statement ==
    /\ ParAt("while_statement")
    /\ IF Frame.at = 0
       THEN ParGo(<<Eat("WHILE"), Call("relation_statement"),
                    At("while_statement", 1, <<current_token.type>>)>>, ret)
       ELSE IF Frame.at = 1
       THEN ParGo(<<Eat("DO"), Call("statement"), At("while_statement", 2, <<Frame.v[1], ret>>)>>,
                  ret)
       ELSE Return(WhileStatement(Frame.v[1], Frame.v[2], ret))

\* v = <<token, expr, statement>>
Parser_if_statement ==
    /\ ParAt("if_statement")
    /\ IF Frame.at = 0
       THEN ParGo(<<Eat("IF"), Call("relation_statement"),
                    At("if_statement", 1, <<current_token.type>>)>>, ret)
       ELSE IF Frame.at = 1
       THEN ParGo(<<Eat("THEN"), Call("statement"), At("if_statement", 2, <<Frame.v[1], ret>>)>>,
                  ret)
       ELSE IF Frame.at = 2
       THEN IF current_token.type = "ELSE"
            THEN ParGo(<<Eat("ELSE"), Call("statement"),
                         At("if_statement", 3, <<Frame.v[1], Frame.v[2], ret>>)>>, ret)
            ELSE Return(IfStatement(Frame.v[1], Frame.v[2], ret, NoNode))
       ELSE Return(IfStatement(Frame.v[1], Frame.v[2], Frame.v[3], ret))

\* v = <<token, actual_params>>; 2 is actual_params.append(node), 3 the test of
\* the while loop
Parser_proccall_statement ==
    /\ ParAt("proccall_statement")
    /\ IF Frame.at = 0
       THEN ParGo(<<Eat("ID"), Eat("LPAREN"), At("proccall_statement", 1, <<current_token, <<>>>>)>>,
                  ret)
       ELSE IF Frame.at = 1
       THEN IF current_token.type # "RPAREN"
            THEN ParGo(<<Call("expr"), At("proccall_statement", 2, Frame.v)>>, ret)
            ELSE ParGo(<<At("proccall_statement", 3, Frame.v)>>, ret)
       ELSE IF Frame.at = 2
       THEN ParGo(<<At("proccall_statement", 3, <<Frame.v[1], Append(Frame.v[2], ret)>>)>>, ret)
       ELSE IF current_token.type = "COMMA"
       THEN ParGo(<<Eat("COMMA"), Call("expr"), At("proccall_statement", 2, Frame.v)>>, ret)
       ELSE ParGo(<<Eat("RPAREN")>>, ProcedureCall(Frame.v[1].value, Frame.v[2], Frame.v[1]))

\* v = <<left, token>>
Parser_assignment_statement ==
    /\ ParAt("assignment_statement")
    /\ IF Frame.at = 0
       THEN ParGo(<<Call("variable"), At("assignment_statement", 1, <<>>)>>, ret)
       ELSE IF Frame.at = 1
       THEN IF current_token.value = PyStr(<<"[">>)
            THEN ParGo(<<Eat("LBRACK"), Eat("INTEGER_CONST"), Eat("RBRACK"), Eat("ASSIGN"),
                         Call("expr"), At("assignment_statement", 2, <<ret, current_token>>)>>,
                       ret)
            ELSE ParGo(<<Eat("ASSIGN"), Call("expr"),
                         At("assignment_statement", 2, <<ret, current_token>>)>>, ret)
       ELSE Return(Assign(Frame.v[1], Frame.v[2], ret))

\* v = <<left, token>>
Parser_relation_statement ==
    /\ ParAt("relation_statement")
    /\ IF Frame.at = 0
       THEN ParGo(<<Call("expr"), At("relation_statement", 1, <<>>)>>, ret)
       ELSE IF Frame.at = 1
       THEN IF current_token.type \in {"EQUAL", "LESS", "GREATER", "LESSEQUAL", "GREATEREQUAL",
                                       "AND", "OR"}
            THEN ParGo(<<Eat(current_token.type), Call("expr"),
                         At("relation_statement", 2, <<ret, current_token>>)>>, ret)
            ELSE ParRaise("Exception")
       ELSE Return(Relation(Frame.v[1], Frame.v[2], ret))

Parser_variable == ParAt("variable") /\ ParGo(<<Eat("ID")>>, Var(current_token))

Parser_empty == ParAt("empty") /\ Return(NoOp)

\* v = <<node>> or <<node, token>>; 2 is the test of the while loop
\* a faulty variant of TermOperators: one precedence level for all five operators
FlatOperators == {"PLUS", "MINUS", "MUL", "INTEGER_DIV", "FLOAT_DIV"}

\* the token types the while loops of expr and of term go on
ExprOperators == {"PLUS", "MINUS"}
TermOperators == {"MUL", "INTEGER_DIV", "FLOAT_DIV"}

Parser_expr ==
    /\ ParAt("expr")
    /\ IF Frame.at = 0
       THEN ParGo(<<Call("term"), At("expr", 1, <<>>)>>, ret)
       ELSE IF Frame.at = 1
       THEN ParGo(<<At("expr", 2, <<ret>>)>>, ret)
       ELSE IF Frame.at = 2
       THEN IF current_token.type \in ExprOperators
            THEN ParGo(<<Eat(current_token.type), Call("term"),
                         At("expr", 3, <<Frame.v[1], current_token>>)>>, ret)
            ELSE Return(Frame.v[1])
       ELSE ParGo(<<At("expr", 2, <<BinOp(Frame.v[1], Frame.v[2], ret)>>)>>, ret)

\* v = <<node>> or <<node, token>>; 2 is the test of the while loop
Parser_term ==
    /\ ParAt("term")
    /\ IF Frame.at = 0
       THEN ParGo(<<Call("factor"), At("term", 1, <<>>)>>, ret)
       ELSE IF Frame.at = 1
       THEN ParGo(<<At("term", 2, <<ret>>)>>, ret)
       ELSE IF Frame.at = 2
       THEN IF current_token.type \in TermOperators
            THEN ParGo(<<Eat(current_token.type), Call("factor"),
                         At("term", 3, <<Frame.v[1], current_token>>)>>, ret)
            ELSE Return(Frame.v[1])
       ELSE ParGo(<<At("term", 2, <<BinOp(Frame.v[1], Frame.v[2], ret)>>)>>, ret)

\* v = <<token>>
Parser_factor ==
    /\ ParAt("factor")
    /\ IF Frame.at = 0
       THEN IF current_token.type \in {"PLUS", "MINUS"}
            THEN ParGo(<<Eat(current_token.type), Call("factor"),
                         At("factor", 1, <<current_token>>)>>, ret)
            ELSE IF current_token.type \in {"INTEGER_CONST", "REAL_CONST"}
            THEN ParGo(<<Eat(current_token.type)>>, Num(current_token))
            ELSE IF current_token.type = "LPAREN"
            THEN ParGo(<<Eat("LPAREN"), Call("expr"), Eat("RPAREN")>>, ret)
            ELSE IF current_token.type = "STRING_CONST"
            THEN ParGo(<<Eat("STRING_CONST")>>, Str(current_token))
            ELSE ParGo(<<Call("variable")>>, ret)
       ELSE Return(UnaryOp(Frame.v[1], ret))

\* Parser.parse, and main's tree = parser.parse(): the analyzer comes next
\* parse() without its test for end of input
Parser_parseAnyTail ==
    /\ ParAt("parse")
    /\ IF Frame.at = 0
       THEN ParGo(<<Call("program"), At("parse", 1, <<>>)>>, ret)
       ELSE /\ tree' = ret
            /\ parse_kont' = <<>>
            /\ pc' = "analyze"
            /\ sem_kont' = <<Visit(ret)>>
            /\ UNCHANGED <<lexer, current_token, ret, text, flags, exit_status, raised, stdout,
                           current_scope, scopes, symbols, proc_symbol, call_stack, kont>>

Parser_parse ==
    /\ ParAt("parse")
    /\ IF Frame.at = 0
       THEN ParGo(<<Call("program"), At("parse", 1, <<>>)>>, ret)
       ELSE IF current_token.type # "EOF"
       THEN ParserError
       ELSE /\ tree' = ret
            /\ parse_kont' = <<>>
            /\ pc' = "analyze"
            /\ sem_kont' = <<Visit(ret)>>
            /\ UNCHANGED <<lexer, current_token, ret, text, flags, exit_status, raised, stdout,
                           current_scope, scopes, symbols, proc_symbol, call_stack, kont>>

-----------------------------------------------------------------------------
(* SYMBOLS AND TABLES *)

NoSymbol == [class |-> "None"]     \* Python's None where a symbol is expected
BuiltinTypeSymbol(name) == [class |-> "BuiltinTypeSymbol", name |-> name]
VarSymbol(name, type) == [class |-> "VarSymbol", name |-> name, type |-> type]
IF_Symbol(name) == [class |-> "IF_Symbol", name |-> name]
\* a ProcedureSymbol object: symbols[ref] holds its name, formal_params, block_ast
ProcedureSymbolRef(ref, name) == [class |-> "ProcedureSymbol", ref |-> ref, name |-> name]
ProcedureSymbol(name) == [name |-> name, formal_params |-> <<>>, block_ast |-> NoNode]

\* a member of the TokenType enum as a dict key, and the name attribute it has
TokenTypeMember(name) == [t |-> "TokenType", v |-> name]
EnumName ==
    [op \in {"READ", "READLN", "WRITE", "WRITELN"} |->
        CASE op = "READ" -> <<"R", "E", "A", "D">>
          [] op = "READLN" -> <<"R", "E", "A", "D", "L", "N">>
          [] op = "WRITE" -> <<"W", "R", "I", "T", "E">>
          [] op = "WRITELN" -> <<"W", "R", "I", "T", "E", "L", "N">>]
\* the enum member itself, where the code inserts it as if it were a symbol
EnumAsSymbol(op) == [class |-> "TokenType", name |-> PyStr(EnumName[op]), member |-> op]

\* f'{name}' of a symbol's name
NameStr(name) == IF name.t = "TokenType" THEN "TokenType." \o name.v ELSE PyStrOf(name)

\* ScopedSymbolTable.__init__
ScopedSymbolTable(scope_name, scope_level, enclosing_scope) ==
    [_symbols |-> <<>>, scope_name |-> scope_name, scope_level |-> scope_level,
     enclosing_scope |-> enclosing_scope]

\* the line a table prints under --scope for insert and for lookup
InsertLog(symbol) == "Insert: " \o NameStr(symbol.name)
LookupLog(table, name) ==
    "Lookup: " \o NameStr(name) \o ". (Scope name: " \o PyStrOf(table.scope_name) \o ")"

\* ScopedSymbolTable.insert, on the table itself
insert(table, symbol) == [table EXCEPT !._symbols = DictSet(@, symbol.name, symbol)]

RECURSIVE lookup(_, _, _, _)
\* ScopedSymbolTable.lookup on table scs[i] of the tables scs: the symbol found
\* (NoSymbol for None) and the lines logged on the way
lookup(scs, i, name, current_scope_only) ==
    LET line == LookupLog(scs[i], name)
    IN IF DictHas(scs[i]._symbols, name)
       THEN [symbol |-> DictGet(scs[i]._symbols, name), log |-> <<line>>]
       ELSE IF current_scope_only THEN [symbol |-> NoSymbol, log |-> <<line>>]
       ELSE IF scs[i].enclosing_scope # 0
       THEN LET r == lookup(scs, scs[i].enclosing_scope, name, FALSE)
            IN [symbol |-> r.symbol, log |-> <<line>> \o r.log]
       ELSE [symbol |-> NoSymbol, log |-> <<line>>]

\* ScopedSymbolTable._init_builtins
_init_builtins(table) ==
    insert(insert(insert(insert(table,
        BuiltinTypeSymbol(PyStr(<<"I", "N", "T", "E", "G", "E", "R">>))),
        BuiltinTypeSymbol(PyStr(<<"R", "E", "A", "L">>))),
        BuiltinTypeSymbol(PyStr(<<"S", "T", "R", "I", "N", "G", "_", "C", "O", "N", "S", "T">>))),
        BuiltinTypeSymbol(PyStr(<<"A", "R", "R", "A", "Y">>)))

RECURSIVE JoinWith(_, _)
\* sep.join(lines)
JoinWith(lines, sep) ==
    IF lines = <<>> THEN ""
    ELSE IF Len(lines) = 1 THEN lines[1]
    ELSE lines[1] \o sep \o JoinWith(Tail(lines), sep)

RECURSIVE Dashes(_, _)
Dashes(c, n) == IF n <= 0 THEN "" ELSE c \o Dashes(c, n - 1)

RECURSIVE SymbolStr(_, _)
\* str(symbol), given the ProcedureSymbol objects syms
SymbolStr(syms, symbol) ==
    IF symbol.class = "None" THEN "None"
    ELSE IF symbol.class = "BuiltinTypeSymbol" THEN PyStrOf(symbol.name)
    ELSE IF symbol.class = "VarSymbol"
    THEN "<VarSymbol(name='" \o PyStrOf(symbol.name) \o "', type='"
             \o SymbolStr(syms, symbol.type) \o "')>"
    ELSE IF symbol.class = "IF_Symbol" THEN "<IF_Symbol(name=" \o NameStr(symbol.name) \o ")>"
    ELSE IF symbol.class = "TokenType" THEN "TokenType." \o symbol.member
    ELSE LET ps == syms[symbol.ref]
         IN "<ProcedureSymbol(name=" \o PyStrOf(ps.name) \o ", parameters=["
                \o JoinWith([i \in DOMAIN ps.formal_params |-> SymbolStr(syms, ps.formal_params[i])], ", ")
                \o "])>"

\* repr(symbol)
SymbolRepr(syms, symbol) ==
    IF symbol.class = "BuiltinTypeSymbol"
    THEN "<BuiltinTypeSymbol(name='" \o PyStrOf(symbol.name) \o "')>"
    ELSE IF symbol.class = "TokenType"
    THEN "<TokenType." \o symbol.member \o ": '" \o PyStrOf(symbol.name) \o "'>"
    ELSE SymbolStr(syms, symbol)

\* ScopedSymbolTable.__str__
ScopeStr(scs, syms, i) ==
    LET h1 == "SCOPE (SCOPED SYMBOL TABLE)"
        h2 == "Scope (Scoped symbol table) contents"
        d == scs[i]._symbols
    IN JoinWith(
        <<"\n", h1, Dashes("=", Len(h1)),
          PadRight("Scope name", 15) \o ": " \o PyStrOf(scs[i].scope_name),
          PadRight("Scope level", 15) \o ": " \o ToString(scs[i].scope_level),
          PadRight("Enclosing scope", 15) \o ": " \o
              (IF scs[i].enclosing_scope = 0 THEN "None"
               ELSE PyStrOf(scs[scs[i].enclosing_scope].scope_name)),
          h2, Dashes("-", Len(h2))>>
        \o [j \in DOMAIN d |-> PadLeft(NameStr(d[j].k), 7) \o ": " \o SymbolRepr(syms, d[j].v)]
        \o <<"\n">>, "\n")

-----------------------------------------------------------------------------
(* SEMANTIC ANALYZER *)
(* The recursive visit is unfolded into sem_kont, the list of what is still  *)
(* to do: nodes to visit and the tails of visit_Program, visit_ProcedureDecl *)
(* and visit_ProcedureCall that run after their subtrees.                    *)

\* the analyzer is about to run visit_<kind> on the node on top of sem_kont
SemAt(kind) ==
    /\ pc = "analyze"
    /\ sem_kont # <<>>
    /\ Head(sem_kont).op = "visit"
    /\ Head(sem_kont).node.kind = kind

SemNode == Head(sem_kont).node

\* a step of the analyzer: what is left to do, the tables, current_scope, the
\* procedure symbols, the call annotations, and the lines logged under --scope
SemStep(k, scs, cur, syms, ann, log) ==
    /\ sem_kont' = k
    /\ scopes' = scs
    /\ current_scope' = cur
    /\ symbols' = syms
    /\ proc_symbol' = ann
    /\ stdout' = stdout \o (IF flags.scope THEN log ELSE <<>>)
    /\ UNCHANGED <<parser_vars, text, flags, tree, call_stack, kont, pc, exit_status, raised>>

\* the step only moves on to the rest of the visit
SemSkip == SemStep(Tail(sem_kont), scopes, current_scope, symbols, proc_symbol, <<>>)

\* SemanticAnalyzer.error, caught in main: print(e.message); sys.exit(1)
SemError(error_code, token, log) ==
    /\ raised' = Error("SemanticError", error_code, token)
    /\ stdout' = stdout \o (IF flags.scope THEN log ELSE <<>>)
                        \o <<ErrorMessage("SemanticError", error_code, token)>>
    /\ pc' = "exit"
    /\ exit_status' = PyInt(1)
    /\ sem_kont' = <<>>
    /\ UNCHANGED <<parser_vars, text, flags, tree, call_stack, kont, scopes, current_scope, symbols, proc_symbol>>

\* a faulty variant of InsertCurrent: the symbol goes into the outermost table
InsertOutermost(symbol) == [scopes EXCEPT ![1] = insert(@, symbol)]

\* self.current_scope.insert(symbol)
InsertCurrent(symbol) == [scopes EXCEPT ![current_scope] = insert(@, symbol)]

SemanticAnalyzer_visit_Program ==
    /\ SemAt("Program")
    /\ LET global_scope == Len(scopes) + 1
           table == _init_builtins(ScopedSymbolTable(PyStr(<<"g", "l", "o", "b", "a", "l">>), 1,
                                                     current_scope))
       IN SemStep(<<Visit(SemNode.block), [op |-> "leave_Program", scope |-> global_scope]>>
                      \o Tail(sem_kont),
                  Append(scopes, table), global_scope, symbols, proc_symbol,
                  <<"ENTER scope: global">>
                      \o [i \in DOMAIN table._symbols |-> InsertLog(table._symbols[i].v)])

\* the end of visit_Program, after visit(node.block)
SemanticAnalyzer_leave_Program ==
    /\ pc = "analyze"
    /\ sem_kont # <<>>
    /\ Head(sem_kont).op = "leave_Program"
    /\ SemStep(Tail(sem_kont), scopes, scopes[current_scope].enclosing_scope, symbols, proc_symbol,
               <<ScopeStr(scopes, symbols, Head(sem_kont).scope), "LEAVE scope: global \n">>)

SemanticAnalyzer_visit_Block ==
    /\ SemAt("Block")
    /\ SemStep(Visits(SemNode.declarations) \o <<Visit(SemNode.compound_statement)>>
                   \o Tail(sem_kont),
               scopes, current_scope, symbols, proc_symbol, <<>>)

SemanticAnalyzer_visit_Str == SemAt("Str") /\ SemSkip

\* visit_READ and visit_WRITE: the enum member op itself goes into the table
SemanticAnalyzer_visit_READ ==
    /\ SemAt("READ")
    /\ SemStep(Tail(sem_kont), InsertCurrent(EnumAsSymbol(SemNode.op)), current_scope, symbols,
               proc_symbol, <<InsertLog(EnumAsSymbol(SemNode.op))>>)

SemanticAnalyzer_visit_WRITE ==
    /\ SemAt("WRITE")
    /\ SemStep(Tail(sem_kont), InsertCurrent(EnumAsSymbol(SemNode.op)), current_scope, symbols,
               proc_symbol, <<InsertLog(EnumAsSymbol(SemNode.op))>>)

SemanticAnalyzer_visit_Compound ==
    /\ SemAt("Compound")
    /\ SemStep(Visits(SemNode.children) \o Tail(sem_kont),
               scopes, current_scope, symbols, proc_symbol, <<>>)

SemanticAnalyzer_visit_NoOp == SemAt("NoOp") /\ SemSkip

SemanticAnalyzer_visit_BinOp ==
    /\ SemAt("BinOp")
    /\ SemStep(<<Visit(SemNode.left), Visit(SemNode.right)>> \o Tail(sem_kont),
               scopes, current_scope, symbols, proc_symbol, <<>>)

RECURSIVE InsertParams(_, _, _, _, _, _)
\* the loop of visit_ProcedureDecl over node.formal_params, from the i-th on
InsertParams(scs, cur, params, i, formals, log) ==
    IF i > Len(params) THEN [scopes |-> scs, formal_params |-> formals, log |-> log]
    ELSE LET param_type == lookup(scs, cur, params[i].type_node.value, FALSE)
             var_symbol == VarSymbol(params[i].var_node.value, param_type.symbol)
         IN InsertParams([scs EXCEPT ![cur] = insert(@, var_symbol)], cur, params, i + 1,
                         Append(formals, var_symbol),
                         log \o param_type.log \o <<InsertLog(var_symbol)>>)

SemanticAnalyzer_visit_ProcedureDecl ==
    /\ SemAt("ProcedureDecl")
    /\ LET ref == Len(symbols) + 1
           proc == ProcedureSymbol(SemNode.proc_name)
           procedure_scope == Len(scopes) + 1
           table == ScopedSymbolTable(SemNode.proc_name, scopes[current_scope].scope_level + 1,
                                      current_scope)
           ps == InsertParams(Append(InsertCurrent(ProcedureSymbolRef(ref, proc.name)), table),
                              procedure_scope, SemNode.formal_params, 1, <<>>, <<>>)
       IN SemStep(<<Visit(SemNode.block_node),
                    [op |-> "leave_ProcedureDecl", node |-> SemNode, ref |-> ref,
                     scope |-> procedure_scope]>> \o Tail(sem_kont),
                  ps.scopes, procedure_scope,
                  Append(symbols, [proc EXCEPT !.formal_params = ps.formal_params]),
                  proc_symbol,
                  <<"Insert: " \o PyStrOf(proc.name), "ENTER scope: " \o PyStrOf(proc.name)>>
                      \o ps.log)

\* a faulty variant of SemanticAnalyzer_leave_ProcedureDecl: current_scope is
\* not set back to the enclosing scope
SemanticAnalyzer_leave_KeepsScope ==
    /\ pc = "analyze"
    /\ sem_kont # <<>>
    /\ Head(sem_kont).op = "leave_ProcedureDecl"
    /\ LET h == Head(sem_kont)
       IN SemStep(Tail(sem_kont), scopes, current_scope,
                  [symbols EXCEPT ![h.ref].block_ast = h.node.block_node], proc_symbol,
                  <<ScopeStr(scopes, symbols, h.scope),
                    "LEAVE scope: " \o PyStrOf(h.node.proc_name)>>)

\* the end of visit_ProcedureDecl, after visit(node.block_node)
SemanticAnalyzer_leave_ProcedureDecl ==
    /\ pc = "analyze"
    /\ sem_kont # <<>>
    /\ Head(sem_kont).op = "leave_ProcedureDecl"
    /\ LET h == Head(sem_kont)
       IN SemStep(Tail(sem_kont), scopes, scopes[current_scope].enclosing_scope,
                  [symbols EXCEPT ![h.ref].block_ast = h.node.block_node], proc_symbol,
                  <<ScopeStr(scopes, symbols, h.scope),
                    "LEAVE scope: " \o PyStrOf(h.node.proc_name)>>)

SemanticAnalyzer_visit_VarDecl ==
    /\ SemAt("VarDecl")
    /\ LET type_symbol == lookup(scopes, current_scope, SemNode.type_node.value, FALSE)
           var_name == SemNode.var_node.value
           var_symbol == VarSymbol(var_name, type_symbol.symbol)
           dup == lookup(scopes, current_scope, var_name, TRUE)
       IN IF dup.symbol # NoSymbol
          THEN SemError("DUPLICATE_ID", SemNode.var_node.token, type_symbol.log \o dup.log)
          ELSE SemStep(Tail(sem_kont), InsertCurrent(var_symbol), current_scope, symbols,
                       proc_symbol, type_symbol.log \o dup.log \o <<InsertLog(var_symbol)>>)

SemanticAnalyzer_visit_Assign ==
    /\ SemAt("Assign")
    /\ SemStep(<<Visit(SemNode.right), Visit(SemNode.left)>> \o Tail(sem_kont),
               scopes, current_scope, symbols, proc_symbol, <<>>)

SemanticAnalyzer_visit_Var ==
    /\ SemAt("Var")
    /\ LET var_symbol == lookup(scopes, current_scope, SemNode.value, FALSE)
       IN IF var_symbol.symbol = NoSymbol
          THEN SemError("ID_NOT_FOUND", SemNode.token, var_symbol.log)
          ELSE SemStep(Tail(sem_kont), scopes, current_scope, symbols, proc_symbol,
                       var_symbol.log)

SemanticAnalyzer_visit_Num == SemAt("Num") /\ SemSkip

\* the operand is not visited
SemanticAnalyzer_visit_UnaryOp == SemAt("UnaryOp") /\ SemSkip

\* the key of a ProcedureCall node in proc_symbol: where its token stands
CallKey(node) == <<node.token.lineno.v, node.token.column.v>>

SemanticAnalyzer_visit_ProcedureCall ==
    /\ SemAt("ProcedureCall")
    /\ SemStep(Visits(SemNode.actual_params) \o <<[op |-> "resolve", node |-> SemNode]>>
                   \o Tail(sem_kont),
               scopes, current_scope, symbols, proc_symbol, <<>>)

\* the end of visit_ProcedureCall, after the actual parameters
SemanticAnalyzer_resolve_ProcedureCall ==
    /\ pc = "analyze"
    /\ sem_kont # <<>>
    /\ Head(sem_kont).op = "resolve"
    /\ LET node == Head(sem_kont).node
           found == lookup(scopes, current_scope, node.proc_name, FALSE)
       IN SemStep(Tail(sem_kont), scopes, current_scope, symbols,
                  DictSet(proc_symbol, CallKey(node), found.symbol), found.log)

\* neither the relation nor the statements of an IF or WHILE are visited
SemanticAnalyzer_visit_IfStatement ==
    /\ SemAt("IfStatement")
    /\ LET symbol == IF_Symbol(TokenTypeMember(SemNode.name))
       IN SemStep(Tail(sem_kont), InsertCurrent(symbol), current_scope, symbols, proc_symbol,
                  <<InsertLog(symbol)>>)

SemanticAnalyzer_visit_WhileStatement ==
    /\ SemAt("WhileStatement")
    /\ LET symbol == IF_Symbol(TokenTypeMember(SemNode.name))
       IN SemStep(Tail(sem_kont), InsertCurrent(symbol), current_scope, symbols, proc_symbol,
                  <<InsertLog(symbol)>>)

-----------------------------------------------------------------------------
(* INTERPRETER *)
(* The recursive visit of statements is unfolded into kont, as sem_kont is  *)
(* for the analyzer; expressions are evaluated by Eval.                      *)

\* ActivationRecord.__init__
ActivationRecord(name, type, nesting_level) ==
    [name |-> name, type |-> type, nesting_level |-> nesting_level, members |-> <<>>,
     counter |-> 0]

\* ActivationRecord.__str__: the string, without its effects
ARStr(ar) ==
    JoinWith(<<ToString(ar.nesting_level) \o ": " \o ar.type \o " " \o PyStrOf(ar.name)>>
             \o [j \in DOMAIN ar.members |->
                    "   " \o PadRight(PyStrOf(ar.members[j].k), 20) \o ": "
                        \o PyStrOf(ar.members[j].v)],
             "\n")

\* the lines ActivationRecord.__str__ logs under --mips
ARMips(ar) ==
    [j \in DOMAIN ar.members |->
        "li $t" \o ToString(ar.counter + j - 1) \o ", " \o PyStrOf(ar.members[j].v) \o "\n"]

RECURSIVE Flatten(_)
Flatten(ss) == IF ss = <<>> THEN <<>> ELSE Head(ss) \o Flatten(Tail(ss))

Reversed(s) == [i \in DOMAIN s |-> s[Len(s) + 1 - i]]

\* str(self.call_stack): the string, the records with their counters advanced,
\* and the lines logged under --mips
CallStackStr(cs) ==
    [s |-> "CALL STACK\n" \o JoinWith([i \in DOMAIN cs |-> ARStr(Reversed(cs)[i])], "\n")
               \o "\n\n",
     records |-> [i \in DOMAIN cs |-> [cs[i] EXCEPT !.counter = @ + Len(cs[i].members)]],
     mips |-> Flatten([i \in DOMAIN cs |-> ARMips(Reversed(cs)[i])])]

\* CallStack.look_at_next_char: the record on top
Top(cs) == cs[Len(cs)]

RECURSIVE Eval(_, _)
\* Interpreter.visit on an expression node, with ar the record on top of the
\* stack: the value, or the exception raised
Eval(node, ar) ==
    IF node.kind \in {"Num", "Str"} THEN node.value
    ELSE IF node.kind = "Var"
    THEN IF DictHas(ar.members, node.value) THEN DictGet(ar.members, node.value) ELSE None
    ELSE IF node.kind = "UnaryOp"
    THEN LET x == Eval(node.expr, ar)
         IN IF IsExc(x) THEN x
            ELSE IF node.op.type = "PLUS" THEN PyPos(x)
            ELSE PyNeg(x)
    ELSE LET l == Eval(node.left, ar)
         IN IF IsExc(l) THEN l
            ELSE IF node.op.type = "FLOAT_DIV"
            THEN LET fl == PyFloat(l)
                     r == Eval(node.right, ar)
                 IN IF IsExc(fl) THEN fl
                    ELSE IF IsExc(r) THEN r
                    ELSE IF IsExc(PyFloat(r)) THEN PyFloat(r)
                    ELSE PyTrueDiv(fl, PyFloat(r))
            ELSE LET r == Eval(node.right, ar)
                 IN IF IsExc(r) THEN r
                    ELSE IF node.op.type = "PLUS" THEN PyAdd(l, r)
                    ELSE IF node.op.type = "MINUS" THEN PySub(l, r)
                    ELSE IF node.op.type = "MUL" THEN PyMul(l, r)
                    ELSE PyFloorDiv(l, r)

IntAt(kind) ==
    /\ pc = "interpret"
    /\ kont # <<>>
    /\ Head(kont).op = "visit"
    /\ Head(kont).node.kind = kind

IntNode == Head(kont).node

\* Interpreter.log(msg) of a run whose toggles are fl: printed under --stack only
Interpreter_log(fl, lines) == IF fl.stack THEN lines ELSE <<>>

StackLog(lines) == Interpreter_log(flags, lines)
MipsLog(lines) == IF flags.mips THEN lines ELSE <<>>

\* a step of the interpreter: what is left to do, the call stack, the lines printed
IntStep(k, cs, out) ==
    /\ kont' = k
    /\ call_stack' = cs
    /\ stdout' = stdout \o out
    /\ UNCHANGED <<parser_vars, text, flags, tree, pc, exit_status, raised, current_scope, scopes, symbols,
                   proc_symbol, sem_kont>>

IntSkip == IntStep(Tail(kont), call_stack, <<>>)

\* an exception leaves interpret(): main catches none, the process ends with
\* a traceback and status 1
IntRaise(exc, out) ==
    /\ raised' = Error(exc, "none", NoneToken)
    /\ pc' = "exit"
    /\ exit_status' = PyInt(1)
    /\ kont' = <<>>
    /\ stdout' = stdout \o out
    /\ UNCHANGED <<parser_vars, text, flags, tree, call_stack, current_scope, scopes, symbols, proc_symbol,
                   sem_kont>>

Interpreter_visit_Program ==
    /\ IntAt("Program")
    /\ LET ar == ActivationRecord(IntNode.name, "PROGRAM", 1)
           d == CallStackStr(Append(call_stack, ar))
       IN IntStep(<<Visit(IntNode.block), [op |-> "leave_Program", name |-> IntNode.name]>>
                      \o Tail(kont),
                  d.records,
                  StackLog(<<"ENTER: PROGRAM " \o PyStrOf(IntNode.name)>>) \o MipsLog(d.mips)
                      \o StackLog(<<d.s>>))

\* the end of visit_Program, after visit(node.block)
Interpreter_leave_Program ==
    /\ pc = "interpret"
    /\ kont # <<>>
    /\ Head(kont).op = "leave_Program"
    /\ LET d == CallStackStr(call_stack)
       IN IntStep(Tail(kont), SubSeq(d.records, 1, Len(d.records) - 1),
                  StackLog(<<"LEAVE: PROGRAM " \o PyStrOf(Head(kont).name)>>) \o MipsLog(d.mips)
                      \o StackLog(<<d.s>>))

Interpreter_visit_Block ==
    /\ IntAt("Block")
    /\ IntStep(Visits(IntNode.declarations) \o <<Visit(IntNode.compound_statement)>> \o Tail(kont),
               call_stack, <<>>)

Interpreter_visit_VarDecl == IntAt("VarDecl") /\ IntSkip

Interpreter_visit_ProcedureDecl == IntAt("ProcedureDecl") /\ IntSkip

Interpreter_visit_NoOp == IntAt("NoOp") /\ IntSkip

RECURSIVE Strip(_, _)
\* s.strip(chars)
Strip(s, chars) ==
    IF s # <<>> /\ Head(s) \in chars THEN Strip(Tail(s), chars)
    ELSE IF s # <<>> /\ s[Len(s)] \in chars THEN Strip(SubSeq(s, 1, Len(s) - 1), chars)
    ELSE s

\* str(op).strip("TokenType.") of the enum member op
OpStripped(op) ==
    Join(Strip(<<"T", "o", "k", "e", "n", "T", "y", "p", "e", ".">> \o EnumName[op],
               {"T", "o", "k", "e", "n", "y", "p", "."}))

\* the only output of a WRITE or WRITELN is this line of the --stack log
\* the message visit_WRITE hands to log()
WriteMessage(node) ==
    <<IF node.op = "WRITELN"
      THEN OpStripped(node.op) \o " -> " \o PyStrOf(node.value) \o " \\n \n"
      ELSE OpStripped(node.op) \o " -> " \o PyStrOf(node.value) \o "\n">>

Interpreter_visit_WRITE ==
    /\ IntAt("WRITE")
    /\ IntStep(Tail(kont), call_stack, StackLog(WriteMessage(IntNode)))

\* repr() of an element of a READ's parameter list: a Token, or a Param node,
\* which prints as an object with its address
ReadParamRepr(x) == IF "type" \in DOMAIN x THEN TokenStr(x) ELSE "<__main__.Param object>"

\* a faulty variant of Interpreter_visit_READ: an input value, here 0, is bound
\* to the first target
Interpreter_visit_READBinds ==
    /\ IntAt("READ")
    /\ IntStep(Tail(kont),
               IF IntNode.value = <<>> THEN call_stack
               ELSE [call_stack EXCEPT ![Len(call_stack)].members =
                        DictSet(@, IntNode.value[1].value, PyInt(0))],
               <<>>)

Interpreter_visit_READ ==
    /\ IntAt("READ")
    /\ LET param == "[" \o JoinWith([i \in DOMAIN IntNode.value |-> ReadParamRepr(IntNode.value[i])],
                                    ", ") \o "]"
       IN IntStep(Tail(kont), call_stack,
                  StackLog(<<IF IntNode.op = "READLN"
                             THEN OpStripped(IntNode.op) \o " -> " \o param \o " \\n \n"
                             ELSE OpStripped(IntNode.op) \o " -> " \o param \o "\n">>))

Interpreter_visit_Compound ==
    /\ IntAt("Compound")
    /\ IntStep(Visits(IntNode.children) \o Tail(kont), call_stack, <<>>)

\* a faulty variant of Interpreter_visit_Assign: the assignment that reads and
\* writes the PROGRAM record at the bottom of the stack
Interpreter_visit_AssignGlobal ==
    /\ IntAt("Assign")
    /\ LET var_name == IntNode.left.value
           var_value == Eval(IntNode.right, call_stack[1])
       IN IF IsExc(var_value) THEN IntRaise(var_value.v, <<>>)
          ELSE IntStep(Tail(kont),
                       [call_stack EXCEPT ![1].members = DictSet(@, var_name, var_value)],
                       <<>>)

Interpreter_visit_Assign ==
    /\ IntAt("Assign")
    /\ LET var_name == IntNode.left.value
           var_value == Eval(IntNode.right, Top(call_stack))
       IN IF IsExc(var_value) THEN IntRaise(var_value.v, <<>>)
          ELSE IntStep(Tail(kont),
                       [call_stack EXCEPT ![Len(call_stack)].members = DictSet(@, var_name, var_value)],
                       <<>>)

\* the deepest call stack the model lets Python's recursion limit allow
MaxDepth == 4

RECURSIVE BindParams(_, _, _, _, _)
\* for param_symbol, argument_node in zip(formal_params, actual_params):
\*     ar[param_symbol.name] = self.visit(argument_node)
\* from the i-th pair on; the arguments are visited with the caller's record on top
BindParams(formal_params, actual_params, i, ar, caller) ==
    IF i > Len(formal_params) \/ i > Len(actual_params) THEN ar
    ELSE LET x == Eval(actual_params[i], caller)
         IN IF IsExc(x) THEN x
            ELSE BindParams(formal_params, actual_params, i + 1,
                            [ar EXCEPT !.members = DictSet(@, formal_params[i].name, x)], caller)

\* node.proc_symbol, None unless the analyzer has set it
ProcSymbolOf(node) ==
    IF DictHas(proc_symbol, CallKey(node)) THEN DictGet(proc_symbol, CallKey(node)) ELSE NoSymbol

Interpreter_visit_ProcedureCall ==
    /\ IntAt("ProcedureCall")
    /\ LET proc_name == IntNode.proc_name
           sym == ProcSymbolOf(IntNode)
       IN IF sym.class # "ProcedureSymbol" THEN IntRaise("AttributeError", <<>>)
          ELSE LET ar == BindParams(symbols[sym.ref].formal_params, IntNode.actual_params, 1,
                                    ActivationRecord(proc_name, "PROCEDURE", 2), Top(call_stack))
               IN IF "t" \in DOMAIN ar THEN IntRaise(ar.v, <<>>)
                  ELSE IF Len(call_stack) >= MaxDepth THEN IntRaise("RecursionError", <<>>)
                  ELSE LET d == CallStackStr(Append(call_stack, ar))
                       IN IntStep(<<Visit(symbols[sym.ref].block_ast),
                                    [op |-> "leave_ProcedureCall", name |-> proc_name]>>
                                      \o Tail(kont),
                                  d.records,
                                  StackLog(<<"ENTER: PROCEDURE " \o PyStrOf(proc_name)>>)
                                      \o MipsLog(d.mips) \o StackLog(<<d.s>>))

\* a faulty variant of Interpreter_leave_ProcedureCall: the return that pops nothing
Interpreter_leave_KeepsFrame ==
    /\ pc = "interpret"
    /\ kont # <<>>
    /\ Head(kont).op = "leave_ProcedureCall"
    /\ IntStep(Tail(kont), call_stack, <<>>)

\* the end of visit_ProcedureCall, after the procedure's body
Interpreter_leave_ProcedureCall ==
    /\ pc = "interpret"
    /\ kont # <<>>
    /\ Head(kont).op = "leave_ProcedureCall"
    /\ LET d == CallStackStr(call_stack)
       IN IntStep(Tail(kont), SubSeq(d.records, 1, Len(d.records) - 1),
                  StackLog(<<"LEAVE: PROCEDURE " \o PyStrOf(Head(kont).name)>>)
                      \o MipsLog(d.mips) \o StackLog(<<d.s>>))

\* the nodes that have a value attribute
HasValue(node) == node.kind \in {"Num", "Str", "Var"}

\* node.left.value, node.token.type and node.right.value can be read of a statement
CanReadAssign(node) == node.kind = "Assign" /\ HasValue(node.right)

ComparisonTokens == {"EQUAL", "LESS", "LESSEQUAL", "GREATER", "GREATEREQUAL"}

\* the line visit_IfStatement and visit_WhileStatement log of the statement chosen
ResultLog(what, st) ==
    what \o " Statement Result => " \o PyStrOf(st.left.value) \o "  : "
         \o PyStrOf(st.right.value) \o "\n"

\* the left side is visited, the right side is only read as node.expr.right.value;
\* the statement chosen is read and logged, never visited
Interpreter_visit_IfStatement ==
    /\ IntAt("IfStatement")
    /\ LET rel == IntNode.expr
           left_value == Eval(rel.left, Top(call_stack))
       IN IF IsExc(left_value) THEN IntRaise(left_value.v, <<>>)
          ELSE IF ~HasValue(rel.right) THEN IntRaise("AttributeError", <<>>)
          ELSE IF rel.token.type \notin ComparisonTokens THEN IntSkip
          ELSE LET c == PyCompare(rel.token.type, left_value, rel.right.value)
               IN IF IsExc(c) THEN IntRaise(c.v, <<>>)
                  ELSE LET st == IF c.v THEN IntNode.statement ELSE IntNode.elseStatement
                       IN IF ~CanReadAssign(st) THEN IntRaise("AttributeError", <<>>)
                          ELSE IntStep(Tail(kont), call_stack, StackLog(<<ResultLog("IF", st)>>))

Interpreter_visit_WhileStatement ==
    /\ IntAt("WhileStatement")
    /\ LET rel == IntNode.expr
           left_value == Eval(rel.left, Top(call_stack))
       IN IF IsExc(left_value) THEN IntRaise(left_value.v, <<>>)
          ELSE IF ~HasValue(rel.right) THEN IntRaise("AttributeError", <<>>)
          ELSE IF rel.token.type \notin ComparisonTokens THEN IntSkip
          ELSE LET c == PyCompare(rel.token.type, left_value, rel.right.value)
               IN IF IsExc(c) THEN IntRaise(c.v, <<>>)
                  ELSE IF ~c.v THEN IntSkip
                  ELSE IF ~CanReadAssign(IntNode.statement) THEN IntRaise("AttributeError", <<>>)
                  ELSE IntStep(Tail(kont), call_stack,
                               StackLog(<<ResultLog("While", IntNode.statement)>>))

-----------------------------------------------------------------------------
(* main *)

\* lexer = Lexer(text), which reads text[0]; parser = Parser(lexer), which
\* takes the first token; parser.parse() is entered
Main_Parse ==
    /\ pc = "start"
    /\ IF text = <<>> THEN ParRaise("IndexError")
       ELSE Fetch(get_next_token(NewLexer), <<Call("parse")>>)

\* a faulty variant of Main_Interpret: interpretation that does not wait for the
\* analyzer to return
Main_InterpretUnchecked ==
    /\ pc = "analyze"
    /\ pc' = "interpret"
    /\ call_stack' = <<>>
    /\ kont' = <<Visit(tree)>>
    /\ UNCHANGED <<parser_vars, text, flags, tree, exit_status, raised, stdout, current_scope, scopes, symbols,
                   proc_symbol, sem_kont>>

\* semantic_analyzer.visit(tree) has returned: interpreter = Interpreter(tree);
\* interpreter.interpret()
Main_Interpret ==
    /\ pc = "analyze"
    /\ sem_kont = <<>>
    /\ pc' = "interpret"
    /\ call_stack' = <<>>
    /\ kont' = <<Visit(tree)>>
    /\ UNCHANGED <<parser_vars, text, flags, tree, exit_status, raised, stdout, current_scope, scopes, symbols,
                   proc_symbol, sem_kont>>

\* interpret() has returned: main returns and the process ends with status 0
Main_Exit ==
    /\ pc = "interpret"
    /\ kont = <<>>
    /\ pc' = "exit"
    /\ exit_status' = PyInt(0)
    /\ UNCHANGED <<parser_vars, text, flags, tree, raised, stdout, current_scope, scopes, symbols, proc_symbol,
                   sem_kont, call_stack, kont>>

-----------------------------------------------------------------------------
(* The runs: a source file and the command line's toggles *)

\* the characters of a text
Chars(s) == [i \in 1..Len(s) |-> SubSeq(s, i, i)]

\* programs the properties below speak of
EndToEnd ==
    "PROGRAM p; VAR x: INTEGER; BEGIN x := 2 + 3 * 4; WRITELN('done') END."
WriteOnly ==
    "PROGRAM p; BEGIN WRITE('hi') END."
UndeclaredRightSide ==
    "PROGRAM p; VAR x: INTEGER; BEGIN x := y END."
UndeclaredTarget ==
    "PROGRAM p; BEGIN y := 1 END."
UndeclaredBinaryOperand ==
    "PROGRAM p; VAR x: INTEGER; BEGIN x := 1 + y END."
UndeclaredUnaryOperand ==
    "PROGRAM p; VAR x: INTEGER; BEGIN x := -y END."
UndeclaredActual ==
    "PROGRAM p; PROCEDURE Q(a: INTEGER); BEGIN END; BEGIN Q(y) END."
UndeclaredIfLeft ==
    "PROGRAM p; VAR x: INTEGER; BEGIN IF y = 1 THEN x := 2 ELSE x := 3 END."
UndeclaredIfRight ==
    "PROGRAM p; VAR x: INTEGER; BEGIN x := 1; IF x = y THEN x := 2 ELSE x := 3 END."
UndeclaredInIfBody ==
    "PROGRAM p; VAR x: INTEGER; BEGIN x := 1; IF x = 1 THEN y := 2 ELSE x := 3 END."
UndeclaredWhileLeft ==
    "PROGRAM p; VAR x: INTEGER; BEGIN WHILE y < 1 DO x := 1 END."
UndeclaredInWhileBody ==
    "PROGRAM p; VAR x: INTEGER; BEGIN x := 0; WHILE x < 1 DO y := 1 END."
DuplicateVar ==
    "PROGRAM p; VAR x: INTEGER; x: REAL; BEGIN END."
DuplicateInVarList ==
    "PROGRAM p; VAR x, x: INTEGER; BEGIN END."
ParameterAndLocal ==
    "PROGRAM p; PROCEDURE Q(a: INTEGER); VAR a: INTEGER; BEGIN END; BEGIN END."
DuplicateFormals ==
    "PROGRAM p; PROCEDURE Q(a, a: INTEGER); BEGIN END; BEGIN Q(1, 2) END."
VariableAndProcedure ==
    "PROGRAM p; VAR q: INTEGER; PROCEDURE q; BEGIN END; BEGIN END."
TwoProcedures ==
    "PROGRAM p; PROCEDURE q; BEGIN END; PROCEDURE q; BEGIN END; BEGIN END."
OuterAndInner ==
    "PROGRAM p; VAR x: INTEGER; PROCEDURE q; VAR x: INTEGER; BEGIN x := 1 END; BEGIN x := 2; q() END."
CallWithActuals ==
    "PROGRAM p; VAR x: INTEGER; PROCEDURE Q(a, b: INTEGER); VAR y: INTEGER; BEGIN y := a + b END; BEGIN x := 5; Q(x, x + 1); x := 7 END."
NestedCalls ==
    "PROGRAM p; PROCEDURE R(c: INTEGER); BEGIN END; PROCEDURE Q(a: INTEGER); BEGIN R(a * 2) END; BEGIN Q(3); Q(4) END."
Recursion ==
    "PROGRAM p; PROCEDURE R(n: INTEGER); BEGIN R(n + 1) END; BEGIN R(1) END."
WhileCountsToThree ==
    "PROGRAM p; VAR x: INTEGER; BEGIN x := 0; WHILE x < 3 DO x := x + 1 END."
WhileSimpleBody ==
    "PROGRAM p; VAR x: INTEGER; BEGIN x := 0; WHILE x < 3 DO x := 5 END."
WhileFalseAtOnce ==
    "PROGRAM p; VAR x: INTEGER; BEGIN x := 4; WHILE x < 3 DO x := x + 1 END."
IfThenElse ==
    "PROGRAM p; VAR x, y: INTEGER; BEGIN x := 1; IF x = 1 THEN y := 2 ELSE y := 3 END."
IfTakesElse ==
    "PROGRAM p; VAR x, y: INTEGER; BEGIN x := 0; IF x = 1 THEN y := 2 ELSE y := 3 END."
IfWithoutElseTrue ==
    "PROGRAM p; VAR x, y: INTEGER; BEGIN x := 1; IF x = 1 THEN y := 2 END."
IfWithoutElse ==
    "PROGRAM p; VAR x, y: INTEGER; BEGIN x := 0; IF x = 1 THEN y := 2 END."
IfRightExpression ==
    "PROGRAM p; VAR x, y: INTEGER; BEGIN x := 2; IF x = 1 + 1 THEN y := 2 ELSE y := 3 END."
NegativeDividend ==
    "PROGRAM p; VAR x: INTEGER; BEGIN x := -7 DIV 2 END."
NumberDotSemi ==
    "PROGRAM p; VAR x: INTEGER; BEGIN x := 5.; END."
NumberDotSpace ==
    "PROGRAM p; VAR x: INTEGER; BEGIN x := 5. END."
RealLiteral ==
    "PROGRAM p; VAR x: REAL; BEGIN x := 2.5 END."
ArrayRange ==
    "PROGRAM p; VAR a: ARRAY[1..5] OF INTEGER; BEGIN END."
ArrayOfReal ==
    "PROGRAM p; VAR a: ARRAY[1..5] OF REAL; BEGIN END."
TrailingDot ==
    "PROGRAM p; BEGIN END. ."
TrailingBegin ==
    "PROGRAM p; BEGIN END. BEGIN END."
IfNoOperator ==
    "PROGRAM p; VAR x: INTEGER; BEGIN IF x THEN x := 1 END."
IfNotEqual ==
    "PROGRAM p; VAR x: INTEGER; BEGIN x := 1; IF x <> 1 THEN x := 2 ELSE x := 3 END."
IfLessEqual ==
    "PROGRAM p; VAR x: INTEGER; BEGIN x := 1; IF x <= 1 THEN x := 2 ELSE x := 3 END."
IfGreaterEqual ==
    "PROGRAM p; VAR x: INTEGER; BEGIN x := 1; IF x >= 1 THEN x := 2 ELSE x := 3 END."
WriteNoArgument ==
    "PROGRAM p; BEGIN WRITE() END."
WriteSemi ==
    "PROGRAM p; BEGIN WRITE(;) END."
WriteNoParen ==
    "PROGRAM p; BEGIN WRITE 'a' END."
CommentClosed ==
    "PROGRAM p; {c} BEGIN END."
CommentAfterProgram ==
    "PROGRAM p; BEGIN END. {"
VarInteger ==
    "PROGRAM p; VAR v: INTEGER; BEGIN END."
VarReal ==
    "PROGRAM p; VAR v: REAL; BEGIN END."
VarString ==
    "PROGRAM p; VAR v: STRING; BEGIN END."
VarChar ==
    "PROGRAM p; VAR v: CHAR; BEGIN END."
CallAfterSpace ==
    "PROGRAM p; PROCEDURE Q(a: INTEGER); BEGIN END; BEGIN Q (1) END."
CallAfterComment ==
    "PROGRAM p; PROCEDURE Q(a: INTEGER); BEGIN END; BEGIN Q{c}(1) END."
CallAfterNewline ==
    "PROGRAM p; PROCEDURE Q(a: INTEGER); BEGIN END; BEGIN Q\n(1) END."
AssignNoSpace ==
    "PROGRAM p; VAR x: INTEGER; BEGIN x:=1 END."
MissingSemi ==
    "PROGRAM p VAR x: INTEGER; BEGIN END."
GlobalInProcedure ==
    "PROGRAM p; VAR x: INTEGER; PROCEDURE Q(a: INTEGER); VAR y: INTEGER; BEGIN y := a + x END; BEGIN x := 1; Q(2) END."
TrailingIdentifier ==
    "PROGRAM p; BEGIN END. x"
CommentUnterminated ==
    "PROGRAM p; { BEGIN END."
StringUnterminated ==
    "PROGRAM p; BEGIN WRITE('hi) END."
CaseReference ==
    "PROGRAM p; VAR x: INTEGER; BEGIN X := 1 END."
CaseDuplicate ==
    "PROGRAM p; VAR x: INTEGER; X: INTEGER; BEGIN END."
MutualRecursion ==
    "PROGRAM p; PROCEDURE A; BEGIN B() END; PROCEDURE B; BEGIN A() END; BEGIN END."
CallsLater ==
    "PROGRAM p; PROCEDURE A; BEGIN B() END; PROCEDURE B; BEGIN END; BEGIN A() END."
DivideInProcedure ==
    "PROGRAM p; PROCEDURE q; VAR z: INTEGER; BEGIN z := 1 DIV 0 END; BEGIN q() END."
ReadUnassigned ==
    "PROGRAM p; VAR x, y: INTEGER; BEGIN y := x; x := 2 END."
ReadAfterAssign ==
    "PROGRAM p; VAR x: INTEGER; BEGIN x := 1; READ(x); READLN(x); WRITE('a'); WRITELN('b') END."
NestedProcedure ==
    "PROGRAM p; PROCEDURE A; PROCEDURE B; BEGIN END; BEGIN B() END; BEGIN A() END."
ShadowedType ==
    "PROGRAM p; VAR x: INTEGER; PROCEDURE q; VAR x: REAL; BEGIN x := 1 END; BEGIN x := 2 END."
CallUndeclared ==
    "PROGRAM p; BEGIN Q(1) END."
CallVariable ==
    "PROGRAM p; VAR x: INTEGER; BEGIN x(1) END."
DivideByZero ==
    "PROGRAM p; VAR x: INTEGER; BEGIN x := 1 DIV 0 END."
ReadsGlobal ==
    "PROGRAM p; VAR x: INTEGER; PROCEDURE q; VAR z: INTEGER; BEGIN z := x END; BEGIN x := 1; q() END."

\* programs that refer to y, which nothing declares
UndeclaredPrograms ==
    {UndeclaredRightSide,
     UndeclaredTarget,
     UndeclaredBinaryOperand,
     UndeclaredUnaryOperand,
     UndeclaredActual,
     UndeclaredIfLeft,
     UndeclaredIfRight,
     UndeclaredInIfBody,
     UndeclaredWhileLeft,
     UndeclaredInWhileBody}

\* programs that declare one name twice in one scope
DuplicatePrograms ==
    {DuplicateVar,
     DuplicateInVarList,
     ParameterAndLocal,
     DuplicateFormals,
     VariableAndProcedure,
     TwoProcedures}

Programs ==
    UndeclaredPrograms \cup DuplicatePrograms \cup
    {
     EndToEnd,
     WriteOnly,
     "PROGRAM p; VAR x: INTEGER; BEGIN READ(x) END.",
     "PROGRAM p; VAR x: INTEGER; BEGIN READLN(x) END.",
     "PROGRAM p; VAR x: INTEGER; BEGIN x := 'abc' END.",
     "PROGRAM p; VAR r: REAL; BEGIN r := 7 / 2 END.",
     OuterAndInner,
     "PROGRAM p; BEGIN x := 1 ? 2 END.",
     "PROGRAM p; BEGIN x := END.",
     TrailingIdentifier,
     CommentUnterminated,
     "",
     StringUnterminated,
     CallWithActuals,
     NestedCalls,
     Recursion,
     GlobalInProcedure,
     CallUndeclared,
     CallVariable,
     WhileCountsToThree,
     WhileSimpleBody,
     WhileFalseAtOnce,
     IfThenElse,
     IfTakesElse,
     IfWithoutElseTrue,
     IfWithoutElse,
     IfRightExpression,
     "PROGRAM p; VAR x, y: INTEGER; BEGIN x := 2; y := 2; IF x = y THEN y := 5 ELSE y := 3 END.",
     "PROGRAM p; VAR x, y: INTEGER; BEGIN x := 2; IF x > 1 THEN y := 2 ELSE y := 3 END.",
     "PROGRAM p; VAR x: INTEGER; BEGIN x := 1; IF x = 1 THEN WRITELN('a') ELSE WRITELN('b') END.",
     NegativeDividend,
     DivideByZero,
     NumberDotSemi,
     NumberDotSpace,
     RealLiteral,
     ArrayRange,
     ArrayOfReal,
     TrailingDot,
     TrailingBegin,
     IfNoOperator,
     IfNotEqual,
     IfLessEqual,
     IfGreaterEqual,
     WriteNoArgument,
     WriteSemi,
     WriteNoParen,
     CommentClosed,
     CommentAfterProgram,
     VarInteger,
     VarReal,
     VarString,
     VarChar,
     CallAfterSpace,
     CallAfterComment,
     CallAfterNewline,
     AssignNoSpace,
     MissingSemi,
     ReadsGlobal,
     CaseReference,
     CaseDuplicate,
     MutualRecursion,
     CallsLater,
     DivideInProcedure,
     ReadUnassigned,
     ReadAfterAssign,
     NestedProcedure,
     ShadowedType
    }

\* the programs PROGRAM p; VAR x: INTEGER; BEGIN x := a op1 b op2 c END.
MaxOperand == 3
Operators == {"+", "-", "*", "DIV", "/"}
ExprCases == [a : 1..MaxOperand, op1 : Operators, b : 1..MaxOperand, op2 : Operators,
              c : 1..MaxOperand]
ExprText(e) ==
    "PROGRAM p; VAR x: INTEGER; BEGIN x := " \o ToString(e.a) \o " " \o e.op1 \o " "
        \o ToString(e.b) \o " " \o e.op2 \o " " \o ToString(e.c) \o " END."

\* the programs PROGRAM p; VAR x: INTEGER; BEGIN x := a DIV b END. with signed
\* literals a and b
MaxDividend == 7
MaxDivisor == 2
DivCases == [a : (-MaxDividend)..MaxDividend, b : ((-MaxDivisor)..MaxDivisor) \ {0}]
Literal(n) == IF n < 0 THEN "-" \o ToString(-n) ELSE ToString(n)
DivText(d) ==
    "PROGRAM p; VAR x: INTEGER; BEGIN x := " \o Literal(d.a) \o " DIV " \o Literal(d.b) \o " END."

NoFlags == [scope |-> FALSE, stack |-> FALSE, lexer |-> FALSE, visitor |-> FALSE, mips |-> FALSE]

FlagSets ==
    {NoFlags,
     [NoFlags EXCEPT !.scope = TRUE],
     [NoFlags EXCEPT !.stack = TRUE],
     [NoFlags EXCEPT !.lexer = TRUE],
     [NoFlags EXCEPT !.visitor = TRUE],
     [NoFlags EXCEPT !.mips = TRUE],
     [scope |-> TRUE, stack |-> TRUE, lexer |-> TRUE, visitor |-> TRUE, mips |-> TRUE]}

\* the state of the process before main() has touched anything
Fresh ==
    /\ pc = "start"
    /\ exit_status = None
    /\ raised = NoError
    /\ stdout = <<>>
    /\ lexer = NewLexer
    /\ current_token = NoneToken
    /\ parse_kont = <<>>
    /\ ret = NoNode
    /\ tree = NoNode
    /\ current_scope = 0
    /\ scopes = <<>>
    /\ symbols = <<>>
    /\ proc_symbol = <<>>
    /\ sem_kont = <<>>
    /\ call_stack = <<>>
    /\ kont = <<>>

Init ==
    /\ \/ text \in {Chars(s) : s \in Programs} /\ flags \in FlagSets
       \/ /\ text \in {Chars(ExprText(e)) : e \in ExprCases} \cup {Chars(DivText(d)) : d \in DivCases}
          /\ flags = NoFlags
    /\ Fresh

Next ==
    \/ Main_Parse
    \/ Parser_parse
    \/ Parser_eat
    \/ Parser_program
    \/ Parser_block
    \/ Parser_declarations
    \/ Parser_formal_parameters
    \/ Parser_formal_parameter_list
    \/ Parser_variable_declaration
    \/ Parser_procedure_declaration
    \/ Parser_type_spec
    \/ Parser_compound_statement
    \/ Parser_statement_list
    \/ Parser_get_write_parameter
    \/ Parser_read_parameters
    \/ Parser_get_read_parameter
    \/ Parser_io_statement
    \/ Parser_statement
    \/ Parser_while_statement
    \/ Parser_if_statement
    \/ Parser_proccall_statement
    \/ Parser_assignment_statement
    \/ Parser_relation_statement
    \/ Parser_variable
    \/ Parser_empty
    \/ Parser_expr
    \/ Parser_term
    \/ Parser_factor
    \/ SemanticAnalyzer_visit_Program
    \/ SemanticAnalyzer_leave_Program
    \/ SemanticAnalyzer_visit_Block
    \/ SemanticAnalyzer_visit_Str
    \/ SemanticAnalyzer_visit_READ
    \/ SemanticAnalyzer_visit_WRITE
    \/ SemanticAnalyzer_visit_Compound
    \/ SemanticAnalyzer_visit_NoOp
    \/ SemanticAnalyzer_visit_BinOp
    \/ SemanticAnalyzer_visit_ProcedureDecl
    \/ SemanticAnalyzer_leave_ProcedureDecl
    \/ SemanticAnalyzer_visit_VarDecl
    \/ SemanticAnalyzer_visit_Assign
    \/ SemanticAnalyzer_visit_Var
    \/ SemanticAnalyzer_visit_Num
    \/ SemanticAnalyzer_visit_UnaryOp
    \/ SemanticAnalyzer_visit_ProcedureCall
    \/ SemanticAnalyzer_resolve_ProcedureCall
    \/ SemanticAnalyzer_visit_IfStatement
    \/ SemanticAnalyzer_visit_WhileStatement
    \/ Main_Interpret
    \/ Interpreter_visit_Program
    \/ Interpreter_leave_Program
    \/ Interpreter_visit_Block
    \/ Interpreter_visit_VarDecl
    \/ Interpreter_visit_ProcedureDecl
    \/ Interpreter_visit_NoOp
    \/ Interpreter_visit_WRITE
    \/ Interpreter_visit_READ
    \/ Interpreter_visit_Compound
    \/ Interpreter_visit_Assign
    \/ Interpreter_visit_ProcedureCall
    \/ Interpreter_leave_ProcedureCall
    \/ Interpreter_visit_IfStatement
    \/ Interpreter_visit_WhileStatement
    \/ Main_Exit

Spec == Init /\ [][Next]_vars

-----------------------------------------------------------------------------
(* PROPERTIES *)

\* the run is the run of the program s
TextIs(s) == text = Chars(s)

\* the statements of the program have all been executed, its record is still
\* on the stack
ProgramDone ==
    /\ pc = "interpret"
    /\ kont # <<>>
    /\ Head(kont).op = "leave_Program"

\* the value the record on top of the stack holds for a name, None when it holds none
ValueOf(name) ==
    IF DictHas(Top(call_stack).members, PyStr(name))
    THEN DictGet(Top(call_stack).members, PyStr(name))
    ELSE None

RECURSIVE Flat(_)
\* what the print() calls have written, each ending its line
Flat(lines) == IF lines = <<>> THEN "" ELSE Head(lines) \o "\n" \o Flat(Tail(lines))

\* the value of l op r, for the operator as the program text spells it
RefApply(op, l, r) ==
    IF op = "+" THEN PyAdd(l, r)
    ELSE IF op = "-" THEN PySub(l, r)
    ELSE IF op = "*" THEN PyMul(l, r)
    ELSE IF op = "DIV" THEN PyFloorDiv(l, r)
    ELSE PyTrueDiv(PyFloat(l), PyFloat(r))

\* the value of a op1 b op2 c when * DIV / bind tighter than + - and operators
\* of one level associate to the left
RefValue(e) ==
    IF e.op1 \in {"+", "-"} /\ e.op2 \in {"*", "DIV", "/"}
    THEN RefApply(e.op1, PyInt(e.a), RefApply(e.op2, PyInt(e.b), PyInt(e.c)))
    ELSE RefApply(e.op2, RefApply(e.op1, PyInt(e.a), PyInt(e.b)), PyInt(e.c))

\* C1: the end-to-end program parses and passes analysis without error, ends
\* with status 0, and once its Assign has run the PROGRAM record, the only one
\* on the stack, holds x = 14; every program x := a op1 b op2 c leaves in x the
\* value that precedence of * DIV / over + - and left association give.
C1_PrecedenceAndAssociation ==
    /\ TextIs(EndToEnd) =>
         /\ raised = NoError
         /\ pc # "hang"
         /\ pc = "exit" => exit_status = PyInt(0)
         /\ IntAt("WRITE") =>
              /\ Len(call_stack) = 1
              /\ Top(call_stack).type = "PROGRAM"
              /\ ValueOf(<<"x">>) = PyInt(14)
    /\ ProgramDone =>
         \A e \in ExprCases : TextIs(ExprText(e)) => ValueOf(<<"x">>) = RefValue(e)

\* the end-to-end program has run its Assign and stands before its WRITELN
C1_Witness ==
    /\ TextIs(EndToEnd)
    /\ IntAt("WRITE")
    /\ ValueOf(<<"x">>) = PyInt(14)

\* C2: the step that executes WRITE('s') or WRITELN('s') writes, whatever the
\* toggles are, exactly the literal s, with a newline after it for WRITELN
\* and none for WRITE.
C2_WriteEmitsLiteral ==
    [][IntAt("WRITE") =>
         Flat(stdout') = Flat(stdout) \o PyStrOf(IntNode.value)
                             \o (IF IntNode.op = "WRITELN" THEN "\n" ELSE "")]_vars

\* C3: a program that refers to the undeclared y never gets to interpretation,
\* it ends in the SemanticError ID_NOT_FOUND for y.
C3_UndeclaredRejected ==
    (\E s \in UndeclaredPrograms : TextIs(s)) =>
        /\ pc # "interpret"
        /\ pc = "exit" => /\ raised.exc = "SemanticError"
                          /\ raised.error_code = "ID_NOT_FOUND"
                          /\ raised.token.value = PyStr(<<"y">>)

\* C4: a program that declares one name twice in one scope never gets to
\* interpretation, it ends in the SemanticError DUPLICATE_ID; the program that
\* declares x in the global scope and in a procedure raises no error.
C4_DuplicateRejected ==
    /\ (\E s \in DuplicatePrograms : TextIs(s)) =>
           /\ pc # "interpret"
           /\ pc = "exit" => /\ raised.exc = "SemanticError"
                             /\ raised.error_code = "DUPLICATE_ID"
    /\ TextIs(OuterAndInner) => raised = NoError

\* the stages of main that come before interpretation
FrontEnd == {"start", "parse", "analyze"}

\* C5: a run that fails in the lexer, the parser or the analyzer ends at once
\* with status 1 and has taken no interpreter step: nothing was pushed on the
\* call stack and no statement was scheduled; interpretation begins only from
\* the analyzer's normal return, with the tree parse() returned and no error
\* raised, and the ended process takes no further step.
C5_PipelineOrder ==
    [][/\ pc \in FrontEnd => /\ call_stack = <<>>
                             /\ kont = <<>>
                             /\ raised = NoError
       /\ (pc \in FrontEnd /\ pc' # "interpret") => UNCHANGED <<call_stack, kont>>
       /\ (pc \in FrontEnd /\ raised' # NoError) => pc' = "exit"
       /\ (pc \in FrontEnd /\ pc' = "exit") => /\ raised' # NoError
                                               /\ exit_status' = PyInt(1)
       /\ (pc # "interpret" /\ pc' = "interpret") => /\ pc = "analyze"
                                                     /\ sem_kont = <<>>
                                                     /\ parse_kont = <<>>
                                                     /\ tree # NoNode
                                                     /\ tree = ret
       /\ pc = "interpret" => pc' \in {"interpret", "exit"}
       /\ pc \notin {"exit", "hang"}]_vars

\* the analyzer has rejected x := y and the process has ended before interpretation
C5_Witness ==
    /\ TextIs(UndeclaredRightSide)
    /\ pc = "exit"
    /\ raised.exc = "SemanticError"
    /\ exit_status = PyInt(1)
    /\ call_stack = <<>>
    /\ kont = <<>>

RECURSIVE Pending(_)
\* the invocations of visit_Program and visit_ProcedureCall that have started
\* and not returned, the innermost first
Pending(k) ==
    IF k = <<>> THEN <<>>
    ELSE IF Head(k).op = "leave_Program"
    THEN <<[name |-> Head(k).name, type |-> "PROGRAM"]>> \o Pending(Tail(k))
    ELSE IF Head(k).op = "leave_ProcedureCall"
    THEN <<[name |-> Head(k).name, type |-> "PROCEDURE"]>> \o Pending(Tail(k))
    ELSE Pending(Tail(k))

\* the records of the call stack, the top first
Frames(cs) ==
    [i \in 1..Len(cs) |-> [name |-> cs[Len(cs) + 1 - i].name, type |-> cs[Len(cs) + 1 - i].type]]

\* C6: while the interpreter runs, the call stack holds one record for each
\* Program or Procedure invocation that has started and not returned, in the
\* order of the calls; it is empty before interpretation and after the
\* program's invocation has returned.
C6_CallStackDiscipline ==
    /\ pc = "interpret" => Frames(call_stack) = Pending(kont)
    /\ pc \in FrontEnd => call_stack = <<>>
    /\ (pc = "exit" /\ exit_status = PyInt(0)) => call_stack = <<>>

\* Q(3) has returned, and Q(4) has called R(8)
C6_Witness ==
    /\ TextIs(NestedCalls)
    /\ pc = "interpret"
    /\ Len(call_stack) = 3
    /\ Top(call_stack).name = PyStr(<<"R">>)
    /\ ValueOf(<<"c">>) = PyInt(8)

\* the quotient of a by b truncated toward zero
TruncDiv(a, b) == (IF (a < 0) = (b < 0) THEN 1 ELSE -1) * (Abs(a) \div Abs(b))

\* C7: a DIV b is the quotient truncated toward zero, for operands of either sign.
C7_DivTruncates ==
    ProgramDone =>
        \A d \in DivCases : TextIs(DivText(d)) => ValueOf(<<"x">>) = PyInt(TruncDiv(d.a, d.b))

\* C8: x := 0; WHILE x < 3 DO x := x + 1 ends without error and leaves x = 3,
\* and WHILE x < 3 DO x := 5 runs its body.
C8_WhileLoop ==
    /\ TextIs(WhileCountsToThree) => /\ raised = NoError
                                     /\ ProgramDone => ValueOf(<<"x">>) = PyInt(3)
    /\ (TextIs(WhileSimpleBody) /\ ProgramDone) => ValueOf(<<"x">>) = PyInt(5)

\* C9: IF runs its THEN statement when the relation holds, its ELSE statement
\* when it does not, nothing and no error when there is no ELSE, and compares
\* the value of the expression on the right.
C9_IfBranches ==
    /\ (TextIs(IfThenElse) /\ ProgramDone) => ValueOf(<<"y">>) = PyInt(2)
    /\ (TextIs(IfTakesElse) /\ ProgramDone) => ValueOf(<<"y">>) = PyInt(3)
    /\ TextIs(IfWithoutElse) => raised = NoError
    /\ TextIs(IfRightExpression) => /\ raised = NoError
                                    /\ ProgramDone => ValueOf(<<"y">>) = PyInt(2)

\* C10: the step that calls a procedure pushes one PROCEDURE record that holds,
\* for every i, the value of the i-th actual in the caller's record under the
\* name of the i-th formal, and goes on with the procedure's block.
C10_ActualsBound ==
    [][(IntAt("ProcedureCall") /\ pc' = "interpret") =>
         /\ Len(call_stack') = Len(call_stack) + 1
         /\ SubSeq(call_stack', 1, Len(call_stack)) = call_stack
         /\ Top(call_stack').type = "PROCEDURE"
         /\ Top(call_stack').name = IntNode.proc_name
         /\ Head(kont') = Visit(symbols[ProcSymbolOf(IntNode).ref].block_ast)
         /\ \A i \in DOMAIN IntNode.actual_params \cap
                     DOMAIN symbols[ProcSymbolOf(IntNode).ref].formal_params :
                DictGet(Top(call_stack').members,
                        symbols[ProcSymbolOf(IntNode).ref].formal_params[i].name)
                    = Eval(IntNode.actual_params[i], Top(call_stack))]_vars

\* the names a record's members bind
Keys(d) == {d[i].k : i \in DOMAIN d}

\* the binding of a name in a record's members, None when there is none
Binding(d, k) == IF DictHas(d, k) THEN DictGet(d, k) ELSE None

\* C11: the step that executes an Assign leaves every record below the top of
\* the call stack as it was, changes in the top record nothing but the binding
\* of the target name, and when the right side is a variable the value bound
\* is what the top record holds for it, None when the top record holds
\* nothing, whatever the records below hold.
C11_AssignTopFrameOnly ==
    [][(IntAt("Assign") /\ pc' = "interpret") =>
         /\ Len(call_stack') = Len(call_stack)
         /\ \A i \in 1..(Len(call_stack) - 1) : call_stack'[i] = call_stack[i]
         /\ Top(call_stack') = [Top(call_stack) EXCEPT !.members = Top(call_stack').members]
         /\ Keys(Top(call_stack').members)
                = Keys(Top(call_stack).members) \cup {IntNode.left.value}
         /\ \A k \in Keys(Top(call_stack).members) \ {IntNode.left.value} :
                Binding(Top(call_stack').members, k) = Binding(Top(call_stack).members, k)
         /\ IntNode.right.kind = "Var" =>
                Binding(Top(call_stack').members, IntNode.left.value)
                    = Binding(Top(call_stack).members, IntNode.right.value)]_vars

\* procedure q has assigned its own x := 1 while the PROGRAM record below
\* still holds x = 2
C11_Witness ==
    /\ TextIs(OuterAndInner)
    /\ pc = "interpret"
    /\ Len(call_stack) = 2
    /\ ValueOf(<<"x">>) = PyInt(1)
    /\ Binding(call_stack[1].members, PyStr(<<"x">>)) = PyInt(2)

\* the step about to be taken calls Lexer.get_next_token: Parser.__init__ on a
\* text that is not empty, or eat() on the token it expects
NextTokenCalled ==
    \/ pc = "start" /\ text # <<>>
    \/ ParAt("eat") /\ current_token.type = Frame.v[1]

\* the character of the text at index i, NoChar beyond its end
CharAt(i) == IF i \in 1..Len(text) THEN text[i] ELSE NoChar

\* where the next lexeme starts: the cursor, after the white space at it
LexemeStart == skip_whitespace(lexer).pos

RECURSIVE DigitsEnd(_)
\* the index just after the digits that start at i
DigitsEnd(i) == IF isdigit(CharAt(i)) THEN DigitsEnd(i + 1) ELSE i

RECURSIVE FirstAt(_, _)
\* the first index from i on that holds the character c, 0 when none does
FirstAt(c, i) ==
    IF i > Len(text) THEN 0 ELSE IF text[i] = c THEN i ELSE FirstAt(c, i + 1)

\* C12: when the next lexeme is a run of digits n, a `.` after it that no digit
\* follows is left to the next call: the token is INTEGER_CONST(n) and the
\* cursor stops on the `.`; a REAL_CONST comes only from digits, `.`, digit.
C12_NumberThenDot ==
    [][(NextTokenCalled /\ isdigit(CharAt(LexemeStart))) =>
         /\ (/\ CharAt(DigitsEnd(LexemeStart)) = "."
             /\ ~isdigit(CharAt(DigitsEnd(LexemeStart) + 1))) =>
                /\ current_token'.type = "INTEGER_CONST"
                /\ current_token'.value
                       = PyInt(IntOf(SubSeq(text, LexemeStart, DigitsEnd(LexemeStart) - 1)))
                /\ lexer'.pos = DigitsEnd(LexemeStart)
         /\ current_token'.type = "REAL_CONST" =>
                /\ CharAt(DigitsEnd(LexemeStart)) = "."
                /\ isdigit(CharAt(DigitsEnd(LexemeStart) + 1))]_vars

\* program() has returned to parse(): the tokens up to the current one are a
\* complete `PROGRAM ident ; block .`
ProgramParsed == ParAt("parse") /\ Frame.at = 1

\* C13: when a complete `PROGRAM ident ; block .` is followed by a token that
\* is not EOF, parse() raises ParserError UNEXPECTED_TOKEN carrying that token
\* and hands no tree on; the parser hands a Program node to the analyzer only
\* from a complete program whose next token is EOF.
C13_TrailingInputRejected ==
    [][/\ (ProgramParsed /\ current_token.type # "EOF") =>
              /\ pc' = "exit"
              /\ raised' = Error("ParserError", "UNEXPECTED_TOKEN", current_token)
              /\ exit_status' = PyInt(1)
              /\ tree' = NoNode
       /\ (pc = "parse" /\ pc' = "analyze") =>
              /\ ProgramParsed
              /\ current_token.type = "EOF"
              /\ tree'.kind = "Program"
              /\ tree' = ret]_vars

C13_Witness ==
    /\ TextIs(TrailingBegin)
    /\ pc = "exit"
    /\ raised.exc = "ParserError"
    /\ raised.error_code = "UNEXPECTED_TOKEN"
    /\ raised.token.type = "BEGIN"
    /\ raised.token.lineno = PyInt(1)
    /\ raised.token.column = PyInt(23)
    /\ tree = NoNode

\* C14: the parser fails in one way only: a step of the parser that ends the
\* run, other than a failure inside the lexer call of eat(), raises
\* ParserError UNEXPECTED_TOKEN carrying the current token, and no tree is
\* handed on.
C14_SingleFailureMode ==
    [][(pc = "parse" /\ ~NextTokenCalled /\ pc' = "exit") =>
         /\ raised' = Error("ParserError", "UNEXPECTED_TOKEN", current_token)
         /\ tree' = NoNode]_vars

\* C15: a call of get_next_token that meets a `{` with no later `}` ends, and
\* ends with a LexerError; it neither returns a token nor runs forever. When a
\* `}` follows, the call does not fail on the comment and a token it returns
\* lies after that `}`.
C15_CommentTerminates ==
    [][(NextTokenCalled /\ CharAt(LexemeStart) = "{") =>
         IF FirstAt("}", LexemeStart) = 0
         THEN /\ pc' = "exit"
              /\ raised'.exc = "LexerError"
         ELSE /\ pc' # "hang"
              /\ pc' = "parse" =>
                     /\ lexer'.pos > FirstAt("}", LexemeStart)
                     /\ current_token'.type # "EOF" =>
                            current_token'.column.v > FirstAt("}", LexemeStart)]_vars

\* C16: a call of get_next_token that meets a `'` with no later `'` fails with a
\* LexerError (it returns nothing to the parser: a returned None shows as the
\* parser's AttributeError); when a closing `'` follows, the token is
\* STRING_CONST and its value is exactly the characters between the quotes.
C16_StringLiteral ==
    [][(NextTokenCalled /\ CharAt(LexemeStart) = "'") =>
         IF FirstAt("'", LexemeStart + 1) = 0
         THEN /\ pc' = "exit"
              /\ raised'.exc = "LexerError"
         ELSE /\ pc' = "parse"
              /\ current_token'.type = "STRING_CONST"
              /\ current_token'.value
                     = PyStr(SubSeq(text, LexemeStart + 1, FirstAt("'", LexemeStart + 1) - 1))
              /\ lexer'.pos = FirstAt("'", LexemeStart + 1) + 1]_vars

\* the two-character operators of the language and the single characters they
\* start with
TwoCharTokens ==
    {<<":", "=", "ASSIGN">>, <<"<", "=", "LESSEQUAL">>,
     <<">", "=", "GREATEREQUAL">>, <<"<", ">", "NOTEQUAL">>}

\* C18: when the lexeme at the cursor is `:=`, `<=`, `>=` or `<>`, the call of
\* get_next_token returns ASSIGN, LESSEQUAL, GREATEREQUAL or NOTEQUAL and moves
\* the cursor two characters on; COLON, LESS, GREATER and EQUAL are returned
\* only where no two-character operator starts.
C18_TwoCharacterOperators ==
    [][NextTokenCalled =>
         /\ \A t \in TwoCharTokens :
                (CharAt(LexemeStart) = t[1] /\ CharAt(LexemeStart + 1) = t[2]) =>
                    /\ pc' = "parse"
                    /\ current_token'.type = t[3]
                    /\ lexer'.pos = LexemeStart + 2
         /\ (/\ pc' = "parse"
             /\ current_token'.type \in {"COLON", "LESS", "GREATER", "EQUAL"}) =>
                \A t \in TwoCharTokens :
                    ~(CharAt(LexemeStart) = t[1] /\ CharAt(LexemeStart + 1) = t[2])]_vars

\* C17: the toggles do not interfere with the program's output: what a WRITE or
\* WRITELN step adds to the output is what the same step adds in the run of
\* the same text under any other setting of the toggles.
C17_TogglesDoNotInterfere ==
    [][IntAt("WRITE") =>
         \A f \in FlagSets :
             stdout' = stdout \o Interpreter_log(f, WriteMessage(IntNode))]_vars

\* the declaration VAR v: T for each scalar type name T of the grammar
ScalarTypePrograms == {VarInteger, VarReal, VarString, VarChar}

\* C19: VAR v: T with T one of INTEGER, REAL, STRING, CHAR raises no error, and
\* the VarDecl step of the analyzer leaves in the current scope a variable
\* symbol whose type is a builtin type symbol.
C19_ScalarTypesResolve ==
    [][/\ (\E s \in ScalarTypePrograms : TextIs(s)) => raised' = NoError
       /\ (SemAt("VarDecl") /\ SemNode.type_node.kind = "Type" /\ pc' = "analyze") =>
              LET v == lookup(scopes', current_scope', SemNode.var_node.value, TRUE).symbol
              IN /\ v.class = "VarSymbol"
                 /\ v.type.class = "BuiltinTypeSymbol"
                 /\ v.type.name = SemNode.type_node.value]_vars

RECURSIVE NextLexemeAt(_)
\* where the token after the current one starts: the first index from i on that
\* is outside white space and comments (0 in a comment that is never closed)
NextLexemeAt(i) ==
    IF isspace(CharAt(i)) THEN NextLexemeAt(i + 1)
    ELSE IF CharAt(i) # "{" THEN i
    ELSE IF FirstAt("}", i) = 0 THEN 0
    ELSE NextLexemeAt(FirstAt("}", i) + 1)

\* C20: statement() decides on the token sequence alone: a statement that
\* starts with an identifier goes to proccall_statement when the next token is
\* LPAREN, whatever white space or comments lie before it, and to
\* assignment_statement when the next token is anything else.
C20_DispatchOnTokens ==
    [][(ParAt("statement") /\ current_token.type = "ID") =>
         /\ pc' = "parse"
         /\ Head(parse_kont').m = IF CharAt(NextLexemeAt(lexer.pos)) = "("
                                  THEN "proccall_statement"
                                  ELSE "assignment_statement"]_vars

\* two names that differ at most in the case of their letters
SameName(a, b) == a.t = "str" /\ b.t = "str" /\ UpperStr(a.v) = UpperStr(b.v)

\* the table binds a name that is name up to letter case
BindsName(table, name) == \E k \in Keys(table._symbols) : SameName(k, name)

RECURSIVE BoundOnChain(_, _, _)
\* some table on the enclosing chain of scs[i] binds name up to letter case
BoundOnChain(scs, i, name) ==
    \/ BindsName(scs[i], name)
    \/ scs[i].enclosing_scope # 0 /\ BoundOnChain(scs, scs[i].enclosing_scope, name)

\* C21: symbol names are case-insensitive: a reference to a name that some
\* table on the scope chain binds up to letter case is not an ID_NOT_FOUND
\* error, and a variable declaration whose name the current table already
\* binds up to letter case is a DUPLICATE_ID error.
C21_NamesIgnoreCase ==
    [][/\ (SemAt("Var") /\ BoundOnChain(scopes, current_scope, SemNode.value)) =>
              /\ pc' = "analyze"
              /\ raised' = NoError
       /\ (SemAt("VarDecl") /\ BindsName(scopes[current_scope], SemNode.var_node.value)) =>
              /\ pc' = "exit"
              /\ raised'.exc = "SemanticError"
              /\ raised'.error_code = "DUPLICATE_ID"]_vars

\* the analyzer is about to annotate a ProcedureCall node, its actual
\* parameters visited
SemAtResolve == pc = "analyze" /\ sem_kont # <<>> /\ Head(sem_kont).op = "resolve"

\* the names of the procedures declared in the program's own block
GlobalProcedures ==
    {tree.block.declarations[i].proc_name :
        i \in {j \in DOMAIN tree.block.declarations :
                  tree.block.declarations[j].kind = "ProcedureDecl"}}

\* C22: a call of a procedure declared in the program's block, from that
\* procedure's own body or from the body of a procedure declared before or
\* after it, is annotated by the analyzer with the callee's Procedure symbol.
C22_RecursionResolved ==
    [][(SemAtResolve /\ Head(sem_kont).node.proc_name \in GlobalProcedures) =>
         /\ pc' = "analyze"
         /\ DictHas(proc_symbol', CallKey(Head(sem_kont).node))
         /\ DictGet(proc_symbol', CallKey(Head(sem_kont).node)).class = "ProcedureSymbol"
         /\ DictGet(proc_symbol', CallKey(Head(sem_kont).node)).name
                = Head(sem_kont).node.proc_name]_vars

RECURSIVE ScopeChain(_, _)
\* the tables on the enclosing chain of table i, innermost first
ScopeChain(scs, i) ==
    IF i = 0 THEN <<>> ELSE <<i>> \o ScopeChain(scs, scs[i].enclosing_scope)

\* the symbol name is bound to in the first table of the chain that binds it,
\* NoSymbol when none does
InnermostBinding(scs, chain, name) ==
    LET hits == {j \in DOMAIN chain : DictHas(scs[chain[j]]._symbols, name)}
    IN IF hits = {} THEN NoSymbol
       ELSE DictGet(scs[chain[CHOOSE j \in hits : \A k \in hits : j <= k]]._symbols, name)

\* a name no program of the model binds
UnboundName == PyStr(<<"n", "o", "n", "e">>)

\* the names bound in some table, and one that is bound in none
LookupNames(scs) == UNION {Keys(scs[i]._symbols) : i \in DOMAIN scs} \cup {UnboundName}

\* C23: in every state of the analysis, lookup(name) from the current table
\* gives the binding of the innermost table on the enclosing chain that binds
\* name and nothing when none does, and lookup with current_scope_only gives
\* the local binding or nothing; a step of the analysis leaves every table
\* other than the current one as it was.
C23_LookupAndInsert ==
    [][pc = "analyze" =>
         /\ \A i \in DOMAIN scopes : i # current_scope => scopes'[i] = scopes[i]
         /\ (pc' = "analyze" /\ current_scope' # 0) =>
                \A name \in LookupNames(scopes') :
                    /\ lookup(scopes', current_scope', name, FALSE).symbol
                           = InnermostBinding(scopes', ScopeChain(scopes', current_scope'), name)
                    /\ lookup(scopes', current_scope', name, TRUE).symbol
                           = InnermostBinding(scopes', <<current_scope'>>, name)]_vars

\* in the procedure's scope x is the REAL variable of the procedure, in the
\* enclosing scope the INTEGER variable of the program, and INTEGER is found
\* through the chain only
C23_Witness ==
    /\ TextIs(ShadowedType)
    /\ pc = "analyze"
    /\ current_scope # 0
    /\ scopes[current_scope].enclosing_scope # 0
    /\ lookup(scopes, current_scope, PyStr(<<"x">>), FALSE).symbol.type.name
           = PyStr(<<"R", "E", "A", "L">>)
    /\ lookup(scopes, scopes[current_scope].enclosing_scope, PyStr(<<"x">>), FALSE).symbol.type.name
           = PyStr(<<"I", "N", "T", "E", "G", "E", "R">>)
    /\ lookup(scopes, current_scope, PyStr(<<"I", "N", "T", "E", "G", "E", "R">>), TRUE).symbol
           = NoSymbol
    /\ lookup(scopes, current_scope, PyStr(<<"I", "N", "T", "E", "G", "E", "R">>), FALSE).symbol
           = BuiltinTypeSymbol(PyStr(<<"I", "N", "T", "E", "G", "E", "R">>))

\* C24: when the run is over, by normal completion or by an error raised
\* while a Program or ProcedureCall body was executing, every activation
\* record that was pushed has been popped: the call stack is empty.
C24_FramesPoppedOnError ==
    pc = "exit" => call_stack = <<>>

RECURSIVE ReadsUnbound(_, _)
\* evaluating the expression reads a variable that the record ar does not bind
ReadsUnbound(node, ar) ==
    IF node.kind = "Var" THEN ~DictHas(ar.members, node.value)
    ELSE IF node.kind = "UnaryOp" THEN ReadsUnbound(node.expr, ar)
    ELSE IF node.kind = "BinOp"
    THEN ReadsUnbound(node.left, ar) \/ ReadsUnbound(node.right, ar)
    ELSE FALSE

\* C25: an assignment whose right side reads a variable without a binding in
\* the record on top of the stack ends the run with a runtime error: nothing
\* is assigned and no further statement is executed.
C25_UnboundReadIsError ==
    [][(IntAt("Assign") /\ ReadsUnbound(IntNode.right, Top(call_stack))) =>
         /\ pc' = "exit"
         /\ raised'.exc # "none"
         /\ exit_status' = PyInt(1)
         /\ call_stack' = call_stack]_vars

\* C26: a READ, READLN, WRITE or WRITELN step leaves the call stack as it
\* is: its depth, and the name, level and bindings of every activation record
\* (READ binds no input value to its targets).
C26_IoLeavesStateAlone ==
    [][(IntAt("READ") \/ IntAt("WRITE")) =>
         /\ pc' = "interpret"
         /\ Len(call_stack') = Len(call_stack)
         /\ \A i \in DOMAIN call_stack :
                /\ call_stack'[i].members = call_stack[i].members
                /\ call_stack'[i].name = call_stack[i].name
                /\ call_stack'[i].nesting_level = call_stack[i].nesting_level
         /\ kont' = Tail(kont)]_vars

\* READ(x), READLN(x) and WRITE('a') have been executed with x bound to 1, and
\* x is still 1
C26_Witness ==
    /\ TextIs(ReadAfterAssign)
    /\ IntAt("WRITE")
    /\ IntNode.op = "WRITELN"
    /\ ValueOf(<<"x">>) = PyInt(1)

\* the annotation of a call is a Procedure symbol that has its body
ResolvedProcedure(sym) ==
    /\ sym.class = "ProcedureSymbol"
    /\ symbols[sym.ref].block_ast # NoNode

\* C27: once the analysis has returned without error, every annotation it
\* made on a ProcedureCall node, and the annotation of every ProcedureCall
\* node the interpreter comes to, is a Procedure symbol with a body.
C27_CallsResolved ==
    pc = "interpret" =>
        /\ \A i \in DOMAIN proc_symbol : ResolvedProcedure(proc_symbol[i].v)
        /\ IntAt("ProcedureCall") => ResolvedProcedure(ProcSymbolOf(IntNode))

\* the node classes X for which SemanticAnalyzer has a method visit_X
SemanticAnalyzerMethods ==
    {"Block", "Str", "IO", "READ", "WRITE", "Program", "Compound", "NoOp", "BinOp",
     "ProcedureDecl", "VarDecl", "ARRAY", "Assign", "Var", "Num", "UnaryOp", "ProcedureCall",
     "IfStatement", "WhileStatement"}

\* the node classes X for which Interpreter has a method visit_X
InterpreterMethods ==
    {"Program", "Block", "VarDecl", "Type", "Str", "WRITE", "READ", "BinOp", "Num", "UnaryOp",
     "Compound", "Assign", "Var", "NoOp", "ProcedureDecl", "ProcedureCall", "IfStatement",
     "WhileStatement"}

RECURSIVE ExprDispatches(_)
\* every node the interpreter visits when it evaluates the expression has a method
ExprDispatches(node) ==
    /\ node.kind \in InterpreterMethods
    /\ node.kind = "UnaryOp" => ExprDispatches(node.expr)
    /\ node.kind = "BinOp" => ExprDispatches(node.left) /\ ExprDispatches(node.right)

\* every expression the interpreter evaluates inside the visit of the statement
\* has a method
StatementDispatches(node) ==
    /\ node.kind \in InterpreterMethods
    /\ node.kind = "Assign" => ExprDispatches(node.right)
    /\ node.kind = "ProcedureCall" =>
           \A i \in DOMAIN node.actual_params : ExprDispatches(node.actual_params[i])
    /\ node.kind \in {"IfStatement", "WhileStatement"} => ExprDispatches(node.expr.left)

\* C28: every node that the analyzer or the interpreter has taken up to visit
\* is of a class its visitor has a visit_ method for: generic_visit is never
\* reached.
C28_DispatchTotal ==
    /\ pc = "analyze" =>
           \A i \in DOMAIN sem_kont :
               sem_kont[i].op = "visit" => sem_kont[i].node.kind \in SemanticAnalyzerMethods
    /\ pc = "interpret" =>
           \A i \in DOMAIN kont :
               kont[i].op = "visit" => StatementDispatches(kont[i].node)

\* the interpreter is about to visit a call whose actual parameter is a BinOp
\* over a Var and a Num
C28_Witness ==
    /\ TextIs(CallWithActuals)
    /\ IntAt("ProcedureCall")
    /\ Len(IntNode.actual_params) = 2
    /\ IntNode.actual_params[2].kind = "BinOp"
    /\ IntNode.actual_params[2].left.kind = "Var"
    /\ IntNode.actual_params[2].right.kind = "Num"
    /\ StatementDispatches(IntNode)

\* the visits of a Program or ProcedureDecl that have not returned yet, as
\* positions in sem_kont, innermost first
OpenScopes ==
    {i \in DOMAIN sem_kont : sem_kont[i].op \in {"leave_Program", "leave_ProcedureDecl"}}

\* the table entered by the innermost visit of a Program or ProcedureDecl that
\* has not returned, 0 (None) when there is none
InnermostOpenScope ==
    IF OpenScopes = {} THEN 0
    ELSE sem_kont[CHOOSE i \in OpenScopes : \A j \in OpenScopes : i <= j].scope

\* C29: during the analysis current_scope is the table of the innermost
\* Program or ProcedureDecl being visited, so it is back at the enclosing table
\* when visit_ProcedureDecl has returned and None when visit_Program has; the
\* enclosing table of each open scope is the next open scope outwards; and
\* the scope_level of every table is the length of its enclosing chain (1 for
\* the global table).
C29_ScopesBalanced ==
    /\ pc = "analyze" =>
           /\ current_scope = InnermostOpenScope
           /\ \A i \in OpenScopes :
                  scopes[sem_kont[i].scope].enclosing_scope =
                      IF \E j \in OpenScopes : j > i
                      THEN sem_kont[CHOOSE j \in OpenScopes :
                                        j > i /\ \A k \in OpenScopes : k > i => j <= k].scope
                      ELSE 0
           /\ \A i \in OpenScopes :
                  sem_kont[i].op = "leave_Program" <=>
                      scopes[sem_kont[i].scope].enclosing_scope = 0
           /\ \A i \in DOMAIN scopes :
                  scopes[i].scope_level = Len(ScopeChain(scopes, i))
    /\ pc = "interpret" => current_scope = 0

\* the analyzer is inside the procedure B declared in the procedure A: three
\* scopes are open and current_scope is the table of level 3
C29_Witness ==
    /\ TextIs(NestedProcedure)
    /\ pc = "analyze"
    /\ Cardinality(OpenScopes) = 3
    /\ scopes[current_scope].scope_level = 3
    /\ scopes[current_scope].scope_name = PyStr(<<"B">>)
    /\ scopes[scopes[current_scope].enclosing_scope].scope_name = PyStr(<<"A">>)

=============================================================================
